---------------------------- MODULE Spec2Model ----------------------------
(***************************************************************************)
(* Remote TTS playback pipeline of readest: RemoteTTSClient (prefetch      *)
(* semaphore, audio cache, in-flight task map, buffered and streaming      *)
(* segment loops, stop/abort), modelled as a state machine.                *)
(*                                                                         *)
(* Scheduling model.  The client runs on the JavaScript event loop.  Code  *)
(* between two awaits runs to completion.  Promise continuations are jobs  *)
(* of the microtask queue: FIFO, and drained completely before the next    *)
(* task (a network completion, a media element event, a call made by the   *)
(* consumer of the generator or by the user interface) is run.  The        *)
(* variable microtasks is that queue; every task-level action is guarded   *)
(* by an empty queue.                                                      *)
(***************************************************************************)
EXTENDS Integers, Sequences, FiniteSets, TLC

(* ---- bounds of the model ---- *)
MaxCalls == 2          \* speak() invocations in one run
MaxSegs == 4           \* segments of the longest utterance
MaxFaults == 1         \* injected faults: failed requests and element errors
MaxEnvOps == 1         \* stop(), setRate() and abort calls in one run
MaxTotalSegs == 4      \* segments over all speak() invocations in one run
MaxCacheOps == 4       \* cache reads and insertions in one run of SpecCache
MaxMarks == 2          \* marks of the longest mark list given to the segmenter
MaxTextLen == 3        \* characters of the longest mark text
MaxLimit == 3          \* largest value of a segmenter option
MaxScenarioMarks == 4  \* marks of the longest mark list of SpecScenario
ParagraphSpread == 10  \* paragraphs of SpecParagraph: 700 characters, give or take
MaxProviders == 2      \* profiles of the longest provider list given to normalizeTTSSettings

(* ---- program constants ---- *)
prefetchWindowSize == 2
maxPrefetchInFlight == 2
preloadCacheMaxEntries == 64

\* playback rates, in thousandths (1000 is 1.0)
Rates == {1000, 1500}
InitialRate == 1000

VARIABLES
  provider,            \* the active provider's transport, fixed for a run
  rate,                \* #rate
  isStopped,           \* #isStopped
  audioElement,        \* #audioElement: the shared HTMLAudioElement
  audioCache,          \* #audioCache: Map in insertion order, oldest first
  audioPrefetchTasks,  \* #audioPrefetchTasks: cache key -> task
  prefetchInFlight,    \* #prefetchInFlight
  prefetchWaiters,     \* #prefetchWaiters: resolvers of queued acquirers
  tasks,               \* the promise chains built by getOrCreatePrefetchAudioTask
  microtasks,          \* the microtask queue
  calls,               \* the speak() generators, in order of invocation
  hist,                \* history: what the environment did and saw
  segmenter,           \* one run of buildRemoteTTSSegments (textSegmenter.ts)
  adapter,             \* one call of an OpenAICompatibleAdapter method
  settings,            \* one call of normalizeTTSSettings (providerSettings.ts)
  controller           \* the TTSController: its fields and its calls in progress

clientVars == <<provider, rate, isStopped, audioElement, audioCache, audioPrefetchTasks,
                prefetchInFlight, prefetchWaiters, tasks, microtasks, calls, hist>>
vars == <<provider, rate, isStopped, audioElement, audioCache, audioPrefetchTasks,
          prefetchInFlight, prefetchWaiters, tasks, microtasks, calls, hist, segmenter,
          adapter, settings, controller>>

(***************************************************************************)
(* The client state as one record, so that a handler is a composition of   *)
(* functions State -> State, committed by one action.                      *)
(***************************************************************************)
Cur ==
  [provider |-> provider, rate |-> rate, isStopped |-> isStopped, audioElement |-> audioElement,
   audioCache |-> audioCache, audioPrefetchTasks |-> audioPrefetchTasks,
   prefetchInFlight |-> prefetchInFlight, prefetchWaiters |-> prefetchWaiters,
   tasks |-> tasks, microtasks |-> microtasks, calls |-> calls, hist |-> hist]

Commit(s) ==
  /\ provider' = s.provider
  /\ rate' = s.rate
  /\ isStopped' = s.isStopped
  /\ audioElement' = s.audioElement
  /\ audioCache' = s.audioCache
  /\ audioPrefetchTasks' = s.audioPrefetchTasks
  /\ prefetchInFlight' = s.prefetchInFlight
  /\ prefetchWaiters' = s.prefetchWaiters
  /\ tasks' = s.tasks
  /\ microtasks' = s.microtasks
  /\ calls' = s.calls
  /\ hist' = s.hist
  /\ segmenter' = segmenter
  /\ adapter' = adapter
  /\ settings' = settings
  /\ controller' = controller

Min(a, b) == IF a < b THEN a ELSE b
Max(a, b) == IF a > b THEN a ELSE b

(* ---- segments ---- *)
\* The utterance of n segments: segment i (from 0) of the text stream has
\* text i + 1 and is anchored at mark 2 * i.
SegmentText(i) == i + 1
AnchorMark(i) == 2 * i

(* ---- cache key ---- *)
\* Number.prototype.toFixed(2) of a rate given in thousandths: hundredths,
\* rounded half up.
ToFixed2(r) == (r + 5) \div 10

\* buildAudioCacheKey: provider id, model, voice and format are constants of
\* the closure of one speak() call (cfg); the rate is read from the client
\* each time a key is built.
BuildAudioCacheKey(s, cfg, segmentText) == <<cfg, ToFixed2(s.rate), segmentText>>

CacheIndex(cache, key) ==
  IF \E i \in 1..Len(cache) : cache[i].key = key
  THEN CHOOSE i \in 1..Len(cache) : cache[i].key = key
  ELSE 0

RemoveAt(seq, i) == SubSeq(seq, 1, i - 1) \o SubSeq(seq, i + 1, Len(seq))

\* History: the keys of the cache in the order of their last read or write,
\* the least recently used first.
Touch(s, key) ==
  LET Other(k) == k # key IN
  [s EXCEPT !.hist.used = Append(SelectSeq(@, Other), key)]

Forget(s) ==
  LET Present(k) == CacheIndex(s.audioCache, k) # 0 IN
  [s EXCEPT !.hist.used = SelectSeq(@, Present)]

\* getCachedAudio: a hit is deleted and set again, which moves it to the
\* newest end of the Map.
GetCachedAudio(s, key) ==
  LET i == CacheIndex(s.audioCache, key) IN
  IF i = 0 THEN s
  ELSE Touch([s EXCEPT !.audioCache = Append(RemoveAt(@, i), s.audioCache[i])], key)

CacheHas(s, key) == CacheIndex(s.audioCache, key) # 0

RECURSIVE EvictOldest(_)
EvictOldest(cache) ==
  IF Len(cache) > preloadCacheMaxEntries THEN EvictOldest(Tail(cache)) ELSE cache

\* setCachedAudio: Map.set keeps the position of a key that is present and
\* appends a new key; then the oldest entries are dropped down to capacity.
SetCachedAudio(s, key, payload) ==
  LET i == CacheIndex(s.audioCache, key)
      put == IF i = 0 THEN Append(s.audioCache, [key |-> key, data |-> payload])
             ELSE [s.audioCache EXCEPT ![i].data = payload]
  IN Forget(Touch([s EXCEPT !.audioCache = EvictOldest(put)], key))

(* ---- microtask queue ---- *)
Job(kind, id) == [kind |-> kind, id |-> id]
Enqueue(s, job) == [s EXCEPT !.microtasks = Append(@, job)]


(* ---- the prefetch semaphore ---- *)
\* Variant: the comparison with the limit is off by one.
AcquirePrefetchSlot_OffByOne(s, t) ==
  IF s.prefetchInFlight <= maxPrefetchInFlight
  THEN Enqueue([s EXCEPT !.prefetchInFlight = @ + 1, !.tasks[t].st = "acquired"],
               Job("req", t))
  ELSE [s EXCEPT !.prefetchWaiters = Append(@, t), !.tasks[t].st = "waiting"]

\* #acquirePrefetchSlot, up to its await: a free slot is taken at once and
\* the promise chain goes on with its next job; otherwise the resolver is
\* queued and the caller stays suspended.
AcquirePrefetchSlot(s, t) ==
  IF s.prefetchInFlight < maxPrefetchInFlight
  THEN Enqueue([s EXCEPT !.prefetchInFlight = @ + 1, !.tasks[t].st = "acquired"],
               Job("req", t))
  ELSE [s EXCEPT !.prefetchWaiters = Append(@, t), !.tasks[t].st = "waiting"]

\* #acquirePrefetchSlot after its await: the woken waiter counts itself.
ResumeWaiter(s, t) ==
  Enqueue([s EXCEPT !.prefetchInFlight = @ + 1, !.tasks[t].st = "acquired"],
          Job("req", t))

\* #releasePrefetchSlot: the counter is lowered (never below 0) and the
\* oldest waiter is resolved; its continuation is a microtask.
ReleasePrefetchSlot(s) ==
  LET s1 == [s EXCEPT !.prefetchInFlight = Max(0, @ - 1)] IN
  IF s1.prefetchWaiters = <<>> THEN s1
  ELSE LET w == Head(s1.prefetchWaiters) IN
       Enqueue([s1 EXCEPT !.prefetchWaiters = Tail(@), !.tasks[w].st = "woken"],
               Job("acq", w))

(* ---- prefetch tasks ---- *)
NoData == [text |-> 0, speed |-> 0]
NoPromise == [kind |-> "none", t |-> 0, data |-> NoData]

\* What the two abort checks of the segment loops read.
Cancelled(s, c) == s.calls[c].aborted \/ s.isStopped

\* The calls that hold the promise of task t.
WantedBy(s, t) ==
  {c \in 1..Len(s.calls) :
     \E i \in 1..s.calls[c].n :
        s.calls[c].promises[i].kind = "task" /\ s.calls[c].promises[i].t = t}

\* requestAudioBuffer -> requestAudioResponse: the synthesis request leaves
\* with speed: this.#rate, read when the request is issued.
RequestAudioBuffer(s, t) ==
  [s EXCEPT !.tasks[t].st = "inflight",
            !.tasks[t].sent = s.rate,
            !.tasks[t].late = \A c \in WantedBy(s, t) \cup {s.tasks[t].owner} :
                                 s.calls[c].aborted]

\* Variant: the in-flight map is not consulted.
GetOrCreatePrefetchAudioTask_NoDedup(s, c, segmentText) ==
  LET cacheKey == BuildAudioCacheKey(s, s.calls[c].cfg, segmentText)
      i == CacheIndex(s.audioCache, cacheKey)
  IN
  IF i # 0
  THEN [s |-> GetCachedAudio(s, cacheKey),
        p |-> [kind |-> "cached", t |-> 0, data |-> s.audioCache[i].data]]
  ELSE
    LET t == Len(s.tasks) + 1
        s1 == [s EXCEPT !.tasks = Append(@,
                 [key |-> cacheKey, text |-> segmentText, st |-> "new", sent |-> 0,
                  owner |-> c, late |-> FALSE, status |-> 0,
                  contentType |-> <<>>])]
        s2 == AcquirePrefetchSlot(s1, t)
        s3 == [s2 EXCEPT !.audioPrefetchTasks = (cacheKey :> t) @@ @]
    IN [s |-> s3, p |-> [kind |-> "task", t |-> t, data |-> NoData]]

\* getOrCreatePrefetchAudioTask: cache, then in-flight map, then a new
\* promise chain registered under the key; no await in between.
GetOrCreatePrefetchAudioTask(s, c, segmentText) ==
  LET cacheKey == BuildAudioCacheKey(s, s.calls[c].cfg, segmentText)
      i == CacheIndex(s.audioCache, cacheKey)
  IN
  IF i # 0
  THEN [s |-> GetCachedAudio(s, cacheKey),
        p |-> [kind |-> "cached", t |-> 0, data |-> s.audioCache[i].data]]
  ELSE IF cacheKey \in DOMAIN s.audioPrefetchTasks
  THEN [s |-> s,
        p |-> [kind |-> "task", t |-> s.audioPrefetchTasks[cacheKey], data |-> NoData]]
  ELSE
    LET t == Len(s.tasks) + 1
        s1 == [s EXCEPT !.tasks = Append(@,
                 [key |-> cacheKey, text |-> segmentText, st |-> "new", sent |-> 0,
                  owner |-> c, late |-> FALSE, status |-> 0,
                  contentType |-> <<>>])]
        s2 == AcquirePrefetchSlot(s1, t)
        s3 == [s2 EXCEPT !.audioPrefetchTasks = (cacheKey :> t) @@ @]
    IN [s |-> s3, p |-> [kind |-> "task", t |-> t, data |-> NoData]]

TaskSettled(s, t) == s.tasks[t].st \in {"ok", "failed"}

PromiseSettled(s, p) ==
  \/ p.kind = "cached"
  \/ p.kind = "task" /\ TaskSettled(s, p.t)

PromiseFailed(s, p) == p.kind = "task" /\ s.tasks[p.t].st = "failed"

\* ensureAudioResponse on a response that is not ok: the rejection is a plain
\* Error whose message is `Remote TTS HTTP ${response.status}: ${text}`.
FailStatuses == {401, 500}
HttpErrorMessage(status) ==
  IF status = 401 THEN "Remote TTS HTTP 401" ELSE "Remote TTS HTTP 500"

\* error.message of the rejection of a task promise
PromiseError(s, p) ==
  LET status == s.tasks[p.t].status IN
  IF status = 0 THEN "Failed to fetch"
  ELSE IF status >= 200 /\ status <= 299 THEN "Remote TTS non-audio response"
  ELSE HttpErrorMessage(status)

\* A content-type header is a sequence of pieces: the media type and its
\* parameters; <<>> is a response without the header.
ContentTypes ==
  {<<>>, <<"audio/mpeg">>, <<"application/json">>, <<"Text/HTML", "; charset=utf-8">>}
\* String.prototype.toLowerCase on the pieces of a header
ToLowerCase(piece) == IF piece = "Text/HTML" THEN "text/html" ELSE piece
\* contentType.includes(x) for one of the three types that are not audio
IncludesNonAudio(contentType) ==
  \E i \in 1..Len(contentType) :
     ToLowerCase(contentType[i]) \in {"application/json", "text/plain", "text/html"}

\* Variant: only the status is looked at.
EnsureAudioResponse_StatusOnly(status, contentType) ==
  IF ~(status >= 200 /\ status <= 299) THEN "http" ELSE "ok"

\* ensureAudioResponse: "ok" when the response is returned, otherwise the
\* kind of the error thrown.
EnsureAudioResponse(status, contentType) ==
  IF ~(status >= 200 /\ status <= 299) THEN "http"
  ELSE IF IncludesNonAudio(contentType) THEN "nonAudio"
  ELSE "ok"

PromiseData(s, p) ==
  IF p.kind = "cached" THEN p.data
  ELSE [text |-> s.tasks[p.t].text, speed |-> s.tasks[p.t].sent]

(* ---- the generator of one speak() call ---- *)
Event(code, mark, why) == [code |-> code, mark |-> mark, why |-> why]

Emit(s, c, ev) == [s EXCEPT !.calls[c].events = Append(@, ev)]

Finish(s, c, ev) == [Emit(s, c, ev) EXCEPT !.calls[c].pc = "done"]

\* getOrCreateAudioPromise: one promise per segment index of the call.
GetOrCreateAudioPromise(s, c, index) ==
  IF s.calls[c].promises[index + 1].kind # "none" THEN s
  ELSE LET r == GetOrCreatePrefetchAudioTask(s, c, SegmentText(index))
       IN [r.s EXCEPT !.calls[c].promises[index + 1] = r.p]

\* warmupAudioRequests: the window [startIndex, startIndex + window) cut at
\* the end of the utterance.
RECURSIVE WarmupFrom(_, _, _, _)
WarmupFrom(s, c, idx, endExclusive) ==
  IF idx >= endExclusive THEN s
  ELSE WarmupFrom(GetOrCreateAudioPromise(s, c, idx), c, idx + 1, endExclusive)

\* Variant: the window is one segment wider.
WarmupAudioRequests_Wide(s, c, startIndex) ==
  WarmupFrom(s, c, startIndex,
             Min(s.calls[c].n, startIndex + prefetchWindowSize + 1))

WarmupAudioRequests(s, c, startIndex) ==
  WarmupFrom(s, c, startIndex,
             Min(s.calls[c].n, startIndex + prefetchWindowSize))

\* await p: the continuation is queued at once when p is settled, and by the
\* settling of p otherwise.
Await(s, c, pc, p) ==
  LET s1 == [s EXCEPT !.calls[c].pc = pc] IN
  IF PromiseSettled(s, p) THEN Enqueue(s1, Job("gen", c)) ELSE s1

\* Variant: the loop ends one segment early.
LoopTop_EarlyEnd(s, c) ==
  LET k == s.calls[c] IN
  IF k.idx + 1 >= k.n THEN Finish(s, c, Event("end", -1, ""))
  ELSE IF k.aborted \/ s.isStopped THEN Finish(s, c, Event("error", -1, "Aborted"))
  ELSE [Emit(s, c, Event("boundary", AnchorMark(k.idx), ""))
          EXCEPT !.calls[c].dispatched = Append(@, AnchorMark(k.idx)),
                 !.calls[c].pc = "yBoundary"]

\* Variant: the mark is dispatched but no boundary event is yielded.
LoopTop_NoBoundary(s, c) ==
  LET k == s.calls[c] IN
  IF k.idx >= k.n THEN Finish(s, c, Event("end", -1, ""))
  ELSE IF k.aborted \/ s.isStopped THEN Finish(s, c, Event("error", -1, "Aborted"))
  ELSE [s EXCEPT !.calls[c].dispatched = Append(@, AnchorMark(k.idx)),
                 !.calls[c].pc = "yBoundary"]

\* The top of one iteration of the segment loop (both transports): the loop
\* condition, the abort check, dispatchSpeakMark and the boundary event.
LoopTop(s, c) ==
  LET k == s.calls[c] IN
  IF k.idx >= k.n THEN Finish(s, c, Event("end", -1, ""))
  ELSE IF k.aborted \/ s.isStopped THEN Finish(s, c, Event("error", -1, "Aborted"))
  ELSE [Emit(s, c, Event("boundary", AnchorMark(k.idx), ""))
          EXCEPT !.calls[c].dispatched = Append(@, AnchorMark(k.idx)),
                 !.calls[c].pc = "yBoundary"]

\* The segment whose playback ended: the loop goes to the next index.
LoopNext(s, c) ==
  LoopTop([s EXCEPT !.calls[c].idx = @ + 1, !.calls[c].played = @ + 1], c)

\* playWithAudio on the shared element: src, handlers, load(), play().  A
\* play() promise that is still pending on the element is rejected by the new
\* load, which reaches the call that made it.
PlayOnShared(s, c, pc) ==
  LET e == s.audioElement
      victim == e.playPromise
      s1 == [s EXCEPT !.audioElement =
                 [exists |-> TRUE, playing |-> TRUE, handlers |-> c, playPromise |-> c],
               !.calls[c].pc = pc,
               !.calls[c].plays = Append(@, s.calls[c].idx),
               !.calls[c].lateStart = @ \/ Cancelled(s, c)]
  IN IF victim # 0 /\ victim # c
     THEN Enqueue([s1 EXCEPT !.calls[victim].pc =
                      IF @ = "playShared" THEN "sharedRejected" ELSE "onceRejected"],
                  Job("gen", victim))
     ELSE s1

\* playBufferedAudio: the shared element first.
PlayBufferedAudio(s, c) == PlayOnShared(s, c, "playShared")

\* playBufferedAudio, the catch: a fresh element that only the closure knows.
PlayOnFallback(s, c) ==
  [s EXCEPT !.calls[c].pc = "playFallback",
            !.calls[c].local = "playing",
            !.calls[c].plays = Append(@, s.calls[c].idx),
            !.calls[c].lateStart = @ \/ Cancelled(s, c)]

\* Buffered loop after the boundary: warm up the next window, await the
\* promise of the current segment.
ResumeBuffered(s, c) ==
  LET s1 == WarmupAudioRequests(s, c, s.calls[c].idx + 1)
      s2 == GetOrCreateAudioPromise(s1, c, s1.calls[c].idx)
  IN Await(s2, c, "awaitAudio", s2.calls[c].promises[s2.calls[c].idx + 1])

\* Variant: the loop does not wait for the end of the playback it started.
AfterAudio_NoWait(s, c) ==
  LET k == s.calls[c]
      p == k.promises[k.idx + 1]
  IN
  IF PromiseFailed(s, p) THEN Finish(s, c, Event("error", -1, PromiseError(s, p)))
  ELSE IF k.aborted \/ s.isStopped THEN Finish(s, c, Event("error", -1, "Aborted"))
  ELSE LoopNext(PlayBufferedAudio(s, c), c)

\* Variant: the failure of any prefetched segment is reported at once.
AfterAudio_AnyFailed(s, c) ==
  LET k == s.calls[c]
      p == k.promises[k.idx + 1]
  IN
  IF \E i \in 1..k.n : PromiseFailed(s, k.promises[i])
  THEN Finish(s, c, Event("error", -1, HttpErrorMessage(500)))
  ELSE IF k.aborted \/ s.isStopped THEN Finish(s, c, Event("error", -1, "Aborted"))
  ELSE PlayBufferedAudio(s, c)

\* Buffered loop after the await: rejection goes to the catch, then the
\* second abort check, then playback.
AfterAudio(s, c) ==
  LET k == s.calls[c]
      p == k.promises[k.idx + 1]
  IN
  IF PromiseFailed(s, p) THEN Finish(s, c, Event("error", -1, PromiseError(s, p)))
  ELSE IF k.aborted \/ s.isStopped THEN Finish(s, c, Event("error", -1, "Aborted"))
  ELSE PlayBufferedAudio(s, c)

\* Preload: tasks for the first min(n, window) segments, then allSettled.
PreloadSettled(s, c) ==
  \A i \in 1..Min(s.calls[c].n, prefetchWindowSize) :
     PromiseSettled(s, s.calls[c].promises[i])

\* Variant: the preload call does not wait for its requests.
StartPreload_NoWait(s, c) ==
  LET s1 == WarmupFrom(s, c, 0, Min(s.calls[c].n, prefetchWindowSize))
      s2 == [s1 EXCEPT !.calls[c].pc = "preloadWait"]
  IN Enqueue(s2, Job("gen", c))

StartPreload(s, c) ==
  LET s1 == WarmupFrom(s, c, 0, Min(s.calls[c].n, prefetchWindowSize))
      s2 == [s1 EXCEPT !.calls[c].pc = "preloadWait"]
  IN IF PreloadSettled(s2, c) THEN Enqueue(s2, Job("gen", c)) ELSE s2


(* ---- streaming transport ---- *)
\* requestAudioResponse called from the streaming loop: the request leaves at
\* once, outside the semaphore, the cache and the in-flight map.
GetOrCreateStreamResponsePromise(s, c, index) ==
  IF s.calls[c].responses[index + 1] # "none" THEN s
  ELSE [s EXCEPT !.calls[c].responses[index + 1] = "pending",
                 !.calls[c].lateReq = @ \/ s.calls[c].aborted]

RECURSIVE WarmupStreamFrom(_, _, _, _)
WarmupStreamFrom(s, c, idx, endExclusive) ==
  IF idx >= endExclusive THEN s
  ELSE WarmupStreamFrom(GetOrCreateStreamResponsePromise(s, c, idx), c, idx + 1,
                        endExclusive)

WarmupStreamResponses(s, c, startIndex) ==
  WarmupStreamFrom(s, c, startIndex,
                   Min(s.calls[c].n, startIndex + prefetchWindowSize))

\* Streaming loop after the boundary: a cache hit is replayed through
\* playBufferedAudio; otherwise warm up and await the response.
ResumeStream(s, c) ==
  LET k == s.calls[c]
      cacheKey == BuildAudioCacheKey(s, k.cfg, SegmentText(k.idx))
  IN
  IF CacheHas(s, cacheKey)
  THEN PlayBufferedAudio(GetCachedAudio(s, cacheKey), c)
  ELSE
    LET s1 == WarmupStreamResponses(s, c, k.idx + 1)
        s2 == GetOrCreateStreamResponsePromise(s1, c, k.idx)
        s3 == [s2 EXCEPT !.calls[c].pc = "awaitResp"]
    IN IF s3.calls[c].responses[k.idx + 1] \in {"ok", "fail"}
       THEN Enqueue(s3, Job("gen", c)) ELSE s3

\* ensureAudioResponse, then playStreamedResponse up to its first await:
\* without MediaSource support for the mime type the body is buffered
\* (playBufferedResponse); with it a MediaSource and a fresh element are set
\* up and the sourceopen event is awaited.
AfterResponse(s, c) ==
  LET k == s.calls[c] IN
  IF k.responses[k.idx + 1] = "fail"
  THEN Finish(s, c, Event("error", -1, HttpErrorMessage(k.status[k.idx + 1])))
  ELSE IF k.mse
  THEN [s EXCEPT !.calls[c].pc = "mseOpen", !.calls[c].responses[k.idx + 1] = "read"]
  ELSE [s EXCEPT !.calls[c].pc = "readBody", !.calls[c].responses[k.idx + 1] = "read"]

(* ---- continuations run from the microtask queue ---- *)
Continue(s, c) ==
  LET pc == s.calls[c].pc IN
  CASE pc = "awaitAudio" -> AfterAudio(s, c)
    [] pc = "preloadWait" -> Finish(s, c, Event("end", -1, ""))
    [] pc = "sharedRejected" -> PlayOnFallback(s, c)
    [] pc = "onceRejected" -> Finish(s, c, Event("error", -1, "playback"))
    [] pc = "awaitResp" -> AfterResponse(s, c)
    [] pc = "mseRejected" -> Finish(s, c, Event("error", -1, "Aborted"))
    [] OTHER -> s

\* The settling of a prefetch task resumes the generators that await it.
AwaitsTask(s, c, t) ==
  LET k == s.calls[c] IN
  \/ /\ k.pc = "awaitAudio"
     /\ k.promises[k.idx + 1].kind = "task"
     /\ k.promises[k.idx + 1].t = t
  \/ /\ k.pc = "preloadWait"
     /\ \E i \in 1..Min(k.n, prefetchWindowSize) :
           k.promises[i].kind = "task" /\ k.promises[i].t = t
     /\ PreloadSettled(s, c)

RECURSIVE ResumeAwaiting(_, _, _)
ResumeAwaiting(s, t, c) ==
  IF c > Len(s.calls) THEN s
  ELSE ResumeAwaiting(IF AwaitsTask(s, c, t) THEN Enqueue(s, Job("gen", c)) ELSE s,
                      t, c + 1)

\* Variant: a failed task stays registered in the in-flight map.
SettleTask_KeepFailed(s, t, ok) ==
  LET tk == s.tasks[t]
      s1 == [s EXCEPT !.tasks[t].st = IF ok THEN "ok" ELSE "failed"]
      s2 == IF ok THEN SetCachedAudio(s1, tk.key, [text |-> tk.text, speed |-> tk.sent])
            ELSE s1
      s3 == ReleasePrefetchSlot(s2)
      s4 == [s3 EXCEPT !.audioPrefetchTasks =
                [k \in DOMAIN @ \ (IF ok THEN {tk.key} ELSE {}) |-> @[k]]]
  IN ResumeAwaiting(s4, t, 1)

\* The tail of the promise chain of a task: .then(setCachedAudio) on success,
\* .finally(release the slot, delete the key from the in-flight map).
SettleTask(s, t, ok) ==
  LET tk == s.tasks[t]
      s1 == [s EXCEPT !.tasks[t].st = IF ok THEN "ok" ELSE "failed"]
      s2 == IF ok THEN SetCachedAudio(s1, tk.key, [text |-> tk.text, speed |-> tk.sent])
            ELSE s1
      s3 == ReleasePrefetchSlot(s2)
      s4 == [s3 EXCEPT !.audioPrefetchTasks =
                [k \in DOMAIN @ \ {tk.key} |-> @[k]]]
  IN ResumeAwaiting(s4, t, 1)


(* ---- speak() ---- *)
\* provider.stream with MediaSource support, provider.stream without it,
\* buffered synthesis, and no active provider in the settings
Providers == {"buffered", "stream", "streamNoMse", "none"}
Cfg == "provider|model|voice|mp3"

NewCall(s, preload, n) ==
  [preload |-> preload,
   stream |-> s.provider \in {"stream", "streamNoMse"},
   mse |-> s.provider = "stream",
   cfg |-> Cfg,
   n |-> n,
   aborted |-> FALSE,
   pc |-> "start",
   idx |-> 0,
   promises |-> [i \in 1..n |-> NoPromise],
   responses |-> [i \in 1..n |-> "none"],
   status |-> [i \in 1..n |-> 0],
   events |-> <<>>,
   dispatched |-> <<>>,
   plays |-> <<>>,
   played |-> 0,
   local |-> "none",
   reading |-> FALSE,
   lateStart |-> FALSE,
   lateReq |-> FALSE,
   startOps |-> s.hist.envOps]

\* speak() from its first line to its first suspension.
SpeakBody(s, preload, n) ==
  LET c == Len(s.calls) + 1
      s1 == [s EXCEPT !.isStopped = FALSE, !.calls = Append(@, NewCall(s, preload, n))]
  IN
  CASE s.provider = "none" ->
         Finish(s1, c, Event("error", -1, "No active remote provider"))
    [] s.provider # "none" /\ preload -> StartPreload(s1, c)
    [] s.provider = "buffered" /\ ~preload -> LoopTop(WarmupAudioRequests(s1, c, 0), c)
    [] OTHER -> LoopTop(WarmupStreamResponses(s1, c, 0), c)

\* Variant: stop() gives back one slot instead of resetting the counter.
StopBody_Decrement(s) ==
  LET e == s.audioElement
      victim == e.playPromise
      s1 == [s EXCEPT !.isStopped = TRUE,
                      !.audioElement = IF e.exists
                                       THEN [e EXCEPT !.playing = FALSE, !.handlers = 0,
                                                      !.playPromise = 0]
                                       ELSE e,
                      !.audioPrefetchTasks = [k \in {} |-> 0],
                      !.prefetchWaiters = <<>>,
                      !.prefetchInFlight = Max(0, @ - 1)]
  IN IF e.exists /\ victim # 0
     THEN Enqueue([s1 EXCEPT !.calls[victim].pc =
                      IF @ = "playShared" THEN "sharedRejected" ELSE "onceRejected"],
                  Job("gen", victim))
     ELSE s1

\* stop()
StopBody(s) ==
  LET e == s.audioElement
      victim == e.playPromise
      s1 == [s EXCEPT !.isStopped = TRUE,
                      !.audioElement = IF e.exists
                                       THEN [e EXCEPT !.playing = FALSE, !.handlers = 0,
                                                      !.playPromise = 0]
                                       ELSE e,
                      !.audioPrefetchTasks = [k \in {} |-> 0],
                      !.prefetchWaiters = <<>>,
                      !.prefetchInFlight = 0]
  IN IF e.exists /\ victim # 0
     THEN Enqueue([s1 EXCEPT !.calls[victim].pc =
                      IF @ = "playShared" THEN "sharedRejected" ELSE "onceRejected"],
                  Job("gen", victim))
     ELSE s1

(* ---- state machine ---- *)
(* ---- buildRemoteTTSSegments (remote/textSegmenter.ts) ---- *)
\* A text is a sequence of characters.  The alphabet has a word character,
\* whitespace, a weak break and a strong break that also ends a Latin
\* sentence.  JoinSpace is the space that concatText inserts; the program
\* cannot tell it from " ", the model keeps it apart so that inserted
\* spaces can be told from spaces of the input.
Chars == {"a", " ", ",", "!"}
JoinSpace == "_"
\* Characters outside ASCII are written by their code point: one string is
\* one UTF-16 code unit of the text.
Letters == {"a", "b", "c", "d", "e", "f", "g", "h", "i", "j", "k", "l", "m",
            "n", "o", "p", "q", "r", "s", "t", "u", "v", "w", "x", "y", "z",
            "A", "B", "C", "D", "E", "F", "G", "H", "I", "J", "K", "L", "M",
            "N", "O", "P", "Q", "R", "S", "T", "U", "V", "W", "X", "Y", "Z"}
Digits == {"0", "1", "2", "3", "4", "5", "6", "7", "8", "9"}
WordChars == Letters \cup Digits
LatinSentenceEnd == {".", "!", "?"}
STRONG_BREAK_CHARS == {"U+3002", "U+FF01", "U+FF1F", "U+FF1B", "U+2026", "!", "?", ";"}
WEAK_BREAK_CHARS == {"U+FF0C", "U+3001", ",", "U+FF1A", ":"}
Texts == UNION {[1..n -> Chars] : n \in 0..MaxTextLen}
Limits == 0..MaxLimit

IsSpace(ch) == ch \in {" ", JoinSpace}

\* The characters lo..hi of t without leading whitespace and with every
\* run of whitespace reduced to its first character (by halves, so that
\* long texts do not nest deeply).
RECURSIVE Squeeze(_, _, _)
Squeeze(t, lo, hi) ==
  IF lo > hi THEN <<>>
  ELSE IF lo = hi
  THEN (IF IsSpace(t[lo]) /\ (lo = 1 \/ IsSpace(t[lo - 1])) THEN <<>> ELSE <<t[lo]>>)
  ELSE LET mid == (lo + hi) \div 2 IN Squeeze(t, lo, mid) \o Squeeze(t, mid + 1, hi)

\* value.replace(/\s+/g, ' ').trim()
NormalizeText(value) ==
  LET q == Squeeze(value, 1, Len(value)) IN
  IF q # <<>> /\ IsSpace(q[Len(q)]) THEN SubSeq(q, 1, Len(q) - 1) ELSE q

\* Variant: a space only between two word characters.
NeedSpaceBetween_WordsOnly(left, right) ==
  IF left = <<>> \/ right = <<>> THEN FALSE
  ELSE left[Len(left)] \in WordChars /\ right[1] \in WordChars

NeedSpaceBetween(left, right) ==
  IF left = <<>> \/ right = <<>> THEN FALSE
  ELSE LET leftLast == left[Len(left)]
           rightFirst == right[1]
           leftIsWord == leftLast \in WordChars
           rightIsWord == rightFirst \in WordChars
           leftIsLatinSentenceEnd == leftLast \in LatinSentenceEnd
       IN (leftIsWord /\ rightIsWord) \/ (leftIsLatinSentenceEnd /\ rightIsWord)

ConcatText(left, right) ==
  IF left = <<>> THEN right
  ELSE IF right = <<>> THEN left
  ELSE IF NeedSpaceBetween(left, right) THEN left \o <<JoinSpace>> \o right
  ELSE left \o right

\* Variant: the position before the break character, so that the break
\* goes to the tail.
PickBestBreakIndex_BeforeBreak(text, limit) ==
  IF Len(text) <= limit THEN Len(text)
  ELSE LET strong == {i \in 1..limit : text[i] \in STRONG_BREAK_CHARS}
           weak == {i \in 1..limit : text[i] \in WEAK_BREAK_CHARS}
       IN IF strong # {} THEN (CHOOSE i \in strong : \A j \in strong : j <= i) - 1
          ELSE IF weak # {} THEN (CHOOSE i \in weak : \A j \in weak : j <= i) - 1
          ELSE limit

\* The number of characters of the head: the last strong break among the
\* first limit characters, else the last weak break, else the limit.
PickBestBreakIndex(text, limit) ==
  IF Len(text) <= limit THEN Len(text)
  ELSE LET strong == {i \in 1..limit : text[i] \in STRONG_BREAK_CHARS}
           weak == {i \in 1..limit : text[i] \in WEAK_BREAK_CHARS}
       IN IF strong # {} THEN CHOOSE i \in strong : \A j \in strong : j <= i
          ELSE IF weak # {} THEN CHOOSE i \in weak : \A j \in weak : j <= i
          ELSE limit

\* The while loop of splitByAbsoluteLimit, for a limit of at least 1.
RECURSIVE SplitRemaining(_, _)
SplitRemaining(remaining, limit) ==
  IF Len(remaining) > limit
  THEN LET idx == PickBestBreakIndex(remaining, limit)
           head == NormalizeText(SubSeq(remaining, 1, idx))
       IN (IF head # <<>> THEN <<head>> ELSE <<>>)
          \o SplitRemaining(NormalizeText(SubSeq(remaining, idx + 1, Len(remaining))),
                            limit)
  ELSE IF remaining # <<>> THEN <<remaining>> ELSE <<>>

SplitByAbsoluteLimit(text, absoluteMaxChars) ==
  SplitRemaining(NormalizeText(text), absoluteMaxChars)

\* With a limit of 0 the loop of splitByAbsoluteLimit takes an empty head
\* and leaves remaining as it was: it never ends for a text that is not
\* empty.
SplitDiverges(text, absoluteMaxChars) ==
  absoluteMaxChars < 1 /\ NormalizeText(text) # <<>>

DEFAULT_OPTIONS ==
  [preferredMaxChars |-> 90, absoluteMaxChars |-> 500, minCharsPerSegment |-> 40]

\* Variant: half of the preferred size as it was given, not as it was
\* lowered.
WithDefaults_HalfOfGiven(options) ==
  LET preferred == IF options.preferredMaxChars > options.absoluteMaxChars
                   THEN options.absoluteMaxChars ELSE options.preferredMaxChars
      minChars == IF options.minCharsPerSegment > preferred
                  THEN Max(1, options.preferredMaxChars \div 2)
                  ELSE options.minCharsPerSegment
  IN [preferredMaxChars |-> preferred,
      absoluteMaxChars |-> options.absoluteMaxChars,
      minCharsPerSegment |-> minChars]

WithDefaults(options) ==
  LET preferred == IF options.preferredMaxChars > options.absoluteMaxChars
                   THEN options.absoluteMaxChars ELSE options.preferredMaxChars
      minChars == IF options.minCharsPerSegment > preferred
                  THEN Max(1, preferred \div 2) ELSE options.minCharsPerSegment
  IN [preferredMaxChars |-> preferred,
      absoluteMaxChars |-> options.absoluteMaxChars,
      minCharsPerSegment |-> minChars]

\* The state of one call: the marks consumed so far, the buffer
\* (currentText, currentAnchor) and the segments pushed.  An anchor is the
\* position of its mark in the list, 0 is null.  currentMarks and the field
\* marks of a segment record which marks gave text to the buffer.
NoSegmenter ==
  [pc |-> "idle", options |-> WithDefaults([preferredMaxChars |-> 1,
                                            absoluteMaxChars |-> 1,
                                            minCharsPerSegment |-> 1]),
   marks |-> <<>>, currentText |-> <<>>, currentAnchor |-> 0,
   currentMarks |-> <<>>, segments |-> <<>>,
   given |-> [preferredMaxChars |-> 1, absoluteMaxChars |-> 1,
              minCharsPerSegment |-> 1],
   remaining |-> <<>>, chunks |-> <<>>, again |-> <<>>]

\* The locals of a call entered with the given options: given keeps the
\* argument, options is what withDefaults made of it.
Entered(options) ==
  [NoSegmenter EXCEPT !.pc = "loop", !.given = options,
                      !.options = WithDefaults(options)]

Flush(g) ==
  LET text == NormalizeText(g.currentText)
      cleared == [g EXCEPT !.currentText = <<>>, !.currentAnchor = 0,
                           !.currentMarks = <<>>]
  IN IF text = <<>> \/ g.currentAnchor = 0 THEN cleared
     ELSE [cleared EXCEPT !.segments =
             Append(@, [text |-> text, anchorMark |-> g.currentAnchor,
                        marks |-> g.currentMarks])]

\* Variant: a short buffer is merged without looking at absoluteMaxChars.
AppendPiece_NoAbsoluteLimit(g, piece, anchor) ==
  LET normalizedPiece == NormalizeText(piece)
      candidate == ConcatText(g.currentText, normalizedPiece)
      merged == [g EXCEPT !.currentText = candidate,
                          !.currentMarks = Append(@, anchor)]
      fresh(h) == [h EXCEPT !.currentText = normalizedPiece,
                            !.currentAnchor = anchor,
                            !.currentMarks = <<anchor>>]
  IN IF normalizedPiece = <<>> THEN g
     ELSE IF g.currentText = <<>> THEN fresh(g)
     ELSE IF Len(candidate) <= g.options.preferredMaxChars THEN merged
     ELSE IF Len(g.currentText) < g.options.minCharsPerSegment THEN merged
     ELSE fresh(Flush(g))

\* Variant: a merged piece moves the anchor to its own mark.
AppendPiece_LastAnchor(g, piece, anchor) ==
  LET normalizedPiece == NormalizeText(piece)
      candidate == ConcatText(g.currentText, normalizedPiece)
      merged == [g EXCEPT !.currentText = candidate,
                          !.currentAnchor = anchor,
                          !.currentMarks = Append(@, anchor)]
      fresh(h) == [h EXCEPT !.currentText = normalizedPiece,
                            !.currentAnchor = anchor,
                            !.currentMarks = <<anchor>>]
  IN IF normalizedPiece = <<>> THEN g
     ELSE IF g.currentText = <<>> THEN fresh(g)
     ELSE IF Len(candidate) <= g.options.preferredMaxChars THEN merged
     ELSE IF /\ Len(g.currentText) < g.options.minCharsPerSegment
             /\ Len(candidate) <= g.options.absoluteMaxChars THEN merged
     ELSE fresh(Flush(g))

AppendPiece(g, piece, anchor) ==
  LET normalizedPiece == NormalizeText(piece)
      candidate == ConcatText(g.currentText, normalizedPiece)
      merged == [g EXCEPT !.currentText = candidate,
                          !.currentMarks = Append(@, anchor)]
      fresh(h) == [h EXCEPT !.currentText = normalizedPiece,
                            !.currentAnchor = anchor,
                            !.currentMarks = <<anchor>>]
  IN IF normalizedPiece = <<>> THEN g
     ELSE IF g.currentText = <<>> THEN fresh(g)
     ELSE IF Len(candidate) <= g.options.preferredMaxChars THEN merged
     ELSE IF /\ Len(g.currentText) < g.options.minCharsPerSegment
             /\ Len(candidate) <= g.options.absoluteMaxChars THEN merged
     ELSE fresh(Flush(g))

\* for (const piece of pieces) appendPiece(piece, mark)
RECURSIVE AppendPieces(_, _, _)
AppendPieces(g, pieces, anchor) ==
  IF pieces = <<>> THEN g
  ELSE AppendPieces(AppendPiece(g, Head(pieces), anchor), Tail(pieces), anchor)

PerPieceLimit(g) == Min(g.options.preferredMaxChars, g.options.absoluteMaxChars)

(***************************************************************************)
(* OpenAICompatibleAdapter (remote/openaiCompatibleAdapter, adapter.ts).   *)
(* A base URL is a sequence of pieces: an origin, "/" and path words.      *)
(***************************************************************************)
REMOTE_TTS_ERROR_CODES ==
  [InvalidRequest |-> "invalid_request", InvalidProvider |-> "invalid_provider",
   Unauthorized |-> "unauthorized", Forbidden |-> "forbidden",
   RateLimited |-> "rate_limited", Timeout |-> "timeout",
   NetworkError |-> "network_error", UpstreamError |-> "upstream_error"]

\* new URL(origin).hostname of the origins a base URL may start with; a
\* base URL that starts with anything else does not parse.
OriginHostname ==
  [o \in {"https://api.openai.com", "https://API.OPENAI.COM", "http://api.openai.com:8080",
          "https://tts.example.com", "https://api.openai.com.example.com",
          "https://openai.com"} |->
     CASE o = "https://api.openai.com" -> "api.openai.com"
       [] o = "https://API.OPENAI.COM" -> "api.openai.com"
       [] o = "http://api.openai.com:8080" -> "api.openai.com"
       [] o = "https://tts.example.com" -> "tts.example.com"
       [] o = "https://api.openai.com.example.com" -> "api.openai.com.example.com"
       [] o = "https://openai.com" -> "openai.com"]

BaseUrls ==
  {<<>>, <<"/">>, <<"/", "/">>, <<"api.openai.com", "/", "v1">>}
  \cup {<<o, "/", "v1">> : o \in DOMAIN OriginHostname}
  \cup {<<"https://api.openai.com", "/", "v1", "/">>, <<"https://tts.example.com", "/">>}

\* baseUrl.replace(/\/+$/, '')
RECURSIVE trimTrailingSlash(_)
trimTrailingSlash(baseUrl) ==
  IF baseUrl # <<>> /\ baseUrl[Len(baseUrl)] = "/"
  THEN trimTrailingSlash(SubSeq(baseUrl, 1, Len(baseUrl) - 1))
  ELSE baseUrl

isKnownOpenAIDomain_AnyHost(baseUrl) ==
  baseUrl # <<>> /\ baseUrl[1] \in DOMAIN OriginHostname

isKnownOpenAIDomain(baseUrl) ==
  IF baseUrl # <<>> /\ baseUrl[1] \in DOMAIN OriginHostname
  THEN OriginHostname[baseUrl[1]] = "api.openai.com"
  ELSE FALSE

mapHttpStatusToErrorCode(status) ==
  IF status = 401 THEN REMOTE_TTS_ERROR_CODES.Unauthorized
  ELSE IF status = 403 THEN REMOTE_TTS_ERROR_CODES.Forbidden
  ELSE IF status = 429 THEN REMOTE_TTS_ERROR_CODES.RateLimited
  ELSE IF status >= 400 /\ status < 500 THEN REMOTE_TTS_ERROR_CODES.InvalidRequest
  ELSE REMOTE_TTS_ERROR_CODES.UpstreamError

\* response.ok
ResponseOk(status) == status >= 200 /\ status <= 299

HttpStatuses == {200, 204, 304, 400, 401, 403, 404, 429, 499, 500, 503}
\* How the fetch of a request settles: a response, a timeout abort or a
\* network failure.
FetchOutcomes ==
  {[kind |-> "response", status |-> x] : x \in HttpStatuses}
  \cup {[kind |-> "timeout", status |-> 0], [kind |-> "network", status |-> 0]}

DEFAULT_OPENAI_VOICES ==
  <<"alloy", "ash", "ballad", "coral", "echo", "fable", "nova", "onyx", "sage",
    "shimmer", "verse">>

\* What reading the body of a response yields: it cannot be read, it is
\* not JSON, or it is a JSON document with the given voices[].id values.
Payloads ==
  {[kind |-> "unreadable", voices |-> <<>>], [kind |-> "notJson", voices |-> <<>>]} \cup
  {[kind |-> "json", voices |-> v] : v \in {<<>>, <<"">>, <<"uncle_fu">>, <<"", "uncle_fu">>}}

Methods == {"health", "listVoices", "synthesize", "synthesizeStream"}
Inputs == {"", "Hello"}

RemoteTTSAdapterError(code, status) ==
  [name |-> "RemoteTTSAdapterError", code |-> code, status |-> status]
\* An error that is not a RemoteTTSAdapterError (TypeError, SyntaxError).
OtherError(name) == [name |-> name, code |-> "", status |-> 0]
NoError == [name |-> "", code |-> "", status |-> 0]

NoAdapter ==
  [pc |-> "idle", method |-> "", baseUrl |-> <<>>, input |-> "", requests |-> 0,
   outcome |-> [kind |-> "", status |-> 0], payload |-> [kind |-> "", voices |-> <<>>],
   error |-> NoError, voices |-> <<>>]

Throw(a, error) == [a EXCEPT !.pc = "thrown", !.error = error]
Return(a) == [a EXCEPT !.pc = "returned"]

\* The tail of listVoices, after the try block.
VoicesFallback(a) ==
  IF isKnownOpenAIDomain(trimTrailingSlash(a.baseUrl))
  THEN Return([a EXCEPT !.voices = DEFAULT_OPENAI_VOICES])
  ELSE Return([a EXCEPT !.voices = <<>>])

\* A rejection inside the method: listVoices catches it, the others let it
\* through.
Reject(a, error) ==
  IF a.method = "listVoices" THEN VoicesFallback(a) ELSE Throw(a, error)

\* The method up to its first await.
CallAdapter(a) ==
  IF trimTrailingSlash(a.baseUrl) = <<>>
  THEN Throw(a, RemoteTTSAdapterError(REMOTE_TTS_ERROR_CODES.InvalidProvider, 400))
  ELSE IF a.method \in {"synthesize", "synthesizeStream"} /\ a.input = ""
  THEN Throw(a, RemoteTTSAdapterError(REMOTE_TTS_ERROR_CODES.InvalidRequest, 400))
  ELSE [a EXCEPT !.pc = "fetch", !.requests = @ + 1]

\* fetchJsonWithTimeout settles, and assertOkResponse runs to its await.
AfterFetch(a0, outcome) ==
  LET a == [a0 EXCEPT !.outcome = outcome] IN
  IF outcome.kind = "timeout"
  THEN Reject(a, RemoteTTSAdapterError(REMOTE_TTS_ERROR_CODES.Timeout, 504))
  ELSE IF outcome.kind = "network"
  THEN Reject(a, RemoteTTSAdapterError(REMOTE_TTS_ERROR_CODES.NetworkError, 502))
  ELSE IF ~ResponseOk(outcome.status) THEN [a EXCEPT !.pc = "details"]
  ELSE IF a.method = "synthesizeStream" THEN Return(a)
  ELSE [a EXCEPT !.pc = "body"]

\* assertOkResponse after await safeJsonParse(response).
assertOkResponse(a0, payload) ==
  LET a == [a0 EXCEPT !.payload = payload] IN
  IF payload.kind = "unreadable" THEN Reject(a, OtherError("TypeError"))
  ELSE Reject(a, RemoteTTSAdapterError(mapHttpStatusToErrorCode(a.outcome.status),
                                     a.outcome.status))

\* voices.map(...).filter((voice) => voice.id.length > 0)
NonEmptyIds(ids) == SelectSeq(ids, LAMBDA id : id # "")

\* The method after the body of an ok response was read.
AfterBody(a0, payload) ==
  LET a == [a0 EXCEPT !.payload = payload] IN
  IF payload.kind = "unreadable" THEN Reject(a, OtherError("TypeError"))
  ELSE IF a.method = "synthesize" THEN Return(a)
  ELSE IF payload.kind = "notJson" THEN Reject(a, OtherError("SyntaxError"))
  ELSE IF a.method = "health" THEN Return(a)
  ELSE IF NonEmptyIds(payload.voices) # <<>>
  THEN Return([a EXCEPT !.voices = NonEmptyIds(payload.voices)])
  ELSE VoicesFallback(a)

(***************************************************************************)
(* normalizeTTSSettings (providerSettings.ts).  Strings are sequences of   *)
(* characters; a value that is not a string has isString FALSE.            *)
(***************************************************************************)
VALID_ENGINES == {"edge-tts", "web-speech", "native-tts", "remote-tts"}
VALID_PROVIDER_TYPES == {"openai_compatible"}
DEFAULT_TTS_SETTINGS ==
  [defaultEngine |-> "edge-tts", activeProviderId |-> [isString |-> FALSE, value |-> <<>>],
   providers |-> <<>>]

\* String.prototype.trim
RECURSIVE TrimStart(_)
TrimStart(t) == IF t # <<>> /\ t[1] = " " THEN TrimStart(Tail(t)) ELSE t
RECURSIVE TrimEnd(_)
TrimEnd(t) ==
  IF t # <<>> /\ t[Len(t)] = " " THEN TrimEnd(SubSeq(t, 1, Len(t) - 1)) ELSE t
Trim(t) == TrimEnd(TrimStart(t))

mapLegacyClientToEngine(legacyClient) ==
  IF legacyClient = "" THEN DEFAULT_TTS_SETTINGS.defaultEngine
  ELSE IF legacyClient \in VALID_ENGINES THEN legacyClient
  ELSE DEFAULT_TTS_SETTINGS.defaultEngine

\* The profile made of a raw value, with ok FALSE for null.
normalizeTTSProviderProfile(value) ==
  LET id == Trim(value.id)
      name == Trim(value.name)
      baseUrl == Trim(value.baseUrl)
  IN IF ~value.isRecord THEN [ok |-> FALSE, id |-> <<>>, name |-> <<>>, type |-> "",
                              baseUrl |-> <<>>]
     ELSE IF id = <<>> \/ name = <<>> \/ baseUrl = <<>>
     THEN [ok |-> FALSE, id |-> <<>>, name |-> <<>>, type |-> "", baseUrl |-> <<>>]
     ELSE IF value.type \notin VALID_PROVIDER_TYPES
     THEN [ok |-> FALSE, id |-> <<>>, name |-> <<>>, type |-> "", baseUrl |-> <<>>]
     ELSE [ok |-> TRUE, id |-> id, name |-> name, type |-> value.type, baseUrl |-> baseUrl]

\* providersRaw.map(normalizeTTSProviderProfile).filter(provider !== null)
RECURSIVE NormalizeProviders(_)
NormalizeProviders(providersRaw) ==
  IF providersRaw = <<>> THEN <<>>
  ELSE LET profile == normalizeTTSProviderProfile(Head(providersRaw))
       IN (IF profile.ok THEN <<[id |-> profile.id, name |-> profile.name,
                                 type |-> profile.type, baseUrl |-> profile.baseUrl]>>
           ELSE <<>>) \o NormalizeProviders(Tail(providersRaw))

\* providers.some((provider) => provider.id === activeProviderRaw)
SomeProviderHasId(providers, id) == \E i \in 1..Len(providers) : providers[i].id = id

normalizeTTSSettings(input, legacyPreferredClient) ==
  LET fallbackEngine == mapLegacyClientToEngine(legacyPreferredClient)
      defaultEngine == IF input.defaultEngine \in VALID_ENGINES THEN input.defaultEngine
                       ELSE fallbackEngine
      providers == NormalizeProviders(input.providers)
      activeProviderRaw == IF input.activeProviderId.isString THEN input.activeProviderId
                           ELSE [isString |-> FALSE, value |-> <<>>]
      activeProviderId ==
        IF /\ activeProviderRaw.isString /\ activeProviderRaw.value # <<>>
           /\ SomeProviderHasId(providers, activeProviderRaw.value)
        THEN activeProviderRaw
        ELSE [isString |-> FALSE, value |-> <<>>]
  IN [defaultEngine |-> defaultEngine, activeProviderId |-> activeProviderId,
      providers |-> providers]

\* The inputs: settings that are not a record read as {}.
IdStrings == {<<>>, <<"p">>, <<"q">>, <<"p", " ">>}
RawProviders ==
  {[isRecord |-> FALSE, id |-> <<>>, name |-> <<>>, type |-> "", baseUrl |-> <<>>]} \cup
  [isRecord : {TRUE}, id : IdStrings, name : {<<>>, <<"N">>},
   type : {"openai_compatible", "azure"}, baseUrl : {<<" ">>, <<"u">>}]
RECURSIVE ListsUpTo(_, _)
ListsUpTo(S, n) ==
  IF n = 0 THEN {<<>>}
  ELSE LET shorter == ListsUpTo(S, n - 1)
       IN shorter \cup {Append(l, x) : l \in {k \in shorter : Len(k) = n - 1}, x \in S}
RawSettings ==
  [defaultEngine : {"remote-tts", "bogus"},
   activeProviderId : {[isString |-> FALSE, value |-> <<>>]} \cup
                      {[isString |-> TRUE, value |-> v] : v \in IdStrings},
   providers : ListsUpTo(RawProviders, MaxProviders)]
LegacyClients == {"", "native-tts"}

NoSettings ==
  [pc |-> "idle", input |-> DEFAULT_TTS_SETTINGS, legacyPreferredClient |-> "",
   output |-> DEFAULT_TTS_SETTINGS]

(***************************************************************************)
(* TTSController (the second part of remote/textSegmenter.ts) with the     *)
(* remote engine, on one section of a book.  The text walker (view.tts,    *)
(* foliate-js) is a cursor over the text units of the section: next() and  *)
(* prev() move it by one unit and return that unit, or return nothing and  *)
(* leave it where it is at either end; start() puts it on the first unit,  *)
(* resume() returns the unit it is on.  An SSML string is the sequence of  *)
(* the units it holds, <<>> is undefined.  Every unit has text, and the    *)
(* units are short: a batch is closed by the number of sentences, never by *)
(* the number of characters.                                               *)
(***************************************************************************)
NumUnits == 6
RemoteBatchMaxSentences == 2
RemoteBatchQueueTargetSize == 2
MaxSessions == 3
MaxOps == 3

PausedStates ==
  {"paused", "stop-paused", "backward-paused", "forward-paused", "setrate-paused",
   "setvoice-paused"}

\* The fields after construction and initViewTTS: no session, the walker
\* before the first unit.  sessions holds, for every AbortController made
\* by #speak, its signal, its promise and whether the client generator is
\* being consumed; chains holds the calls that are suspended at an await.
\* spoken is the history of the SSML handed to ttsClient.speak, each with
\* the method that chose it and with moved, which tells that forward() or
\* backward() ran in a state that was not 'playing' since the SSML before.
NoController ==
  [state |-> "stopped", currentSpeakAbortController |-> 0, currentSpeakPromise |-> 0,
   remoteBatchQueue |-> <<>>, cursor |-> 0, sessions |-> <<>>, chains |-> <<>>,
   spoken |-> <<>>, moved |-> FALSE, ops |-> 0]

\* controller.abort() on the controller of session s: the signal is
\* aborted and the listener added by #speak resolves the promise.
AbortSession(k, s) ==
  [k EXCEPT !.sessions[s].aborted = TRUE,
            !.sessions[s].settled = IF @ = "pending" THEN "resolved" ELSE @]

\* stop() up to its first await: abort the current controller, call
\* ttsClient.stop().
StopEnter(k) ==
  IF k.currentSpeakAbortController # 0
  THEN AbortSession(k, k.currentSpeakAbortController)
  ELSE k

\* stop() after its awaits: the promise it found has settled, or the three
\* seconds of the race are over.
StopFinish(k) == [k EXCEPT !.currentSpeakPromise = 0, !.state = "stopped"]

\* The finally of #speak: whatever controller is current is aborted and
\* forgotten.
Finally(k) ==
  IF k.currentSpeakAbortController # 0
  THEN [AbortSession(k, k.currentSpeakAbortController)
          EXCEPT !.currentSpeakAbortController = 0]
  ELSE k

\* The while loop of #buildRemoteBatchSSML: units are taken from the walker
\* until the batch has its number of sentences or the section ends.
RECURSIVE BuildRemoteBatchSSML(_, _)
BuildRemoteBatchSSML(k, ssmlBatch) ==
  IF Len(ssmlBatch) < RemoteBatchMaxSentences /\ k.cursor < NumUnits
  THEN BuildRemoteBatchSSML([k EXCEPT !.cursor = @ + 1], Append(ssmlBatch, k.cursor + 1))
  ELSE [k |-> k, ssml |-> ssmlBatch]

RECURSIVE FillRemoteBatchQueue(_)
FillRemoteBatchQueue(k) ==
  IF Len(k.remoteBatchQueue) < RemoteBatchQueueTargetSize /\ k.cursor < NumUnits
  THEN LET b == BuildRemoteBatchSSML([k EXCEPT !.cursor = @ + 1], <<k.cursor + 1>>)
       IN FillRemoteBatchQueue([b.k EXCEPT !.remoteBatchQueue = Append(@, b.ssml)])
  ELSE k

\* this.#speak(ssml, false, fromRemoteQueue), not awaited: the call runs
\* into stop() and is suspended at await this.ttsClient.stop().
CallSpeak(k, ssml, fromRemoteQueue, via) ==
  [StopEnter(k) EXCEPT !.chains =
     Append(@, [kind |-> "speak", pc |-> "stop", isPlaying |-> FALSE, ssml |-> ssml,
                fromRemoteQueue |-> fromRemoteQueue, via |-> via, sid |-> 0,
                finally |-> FALSE])]

\* A method called by the user that begins with stop().
CallWithStop(k, kind, isPlaying) ==
  [StopEnter(k) EXCEPT !.chains =
     Append(@, [kind |-> kind, pc |-> "stop", isPlaying |-> isPlaying, ssml |-> <<>>,
                fromRemoteQueue |-> FALSE, via |-> "", sid |-> 0, finally |-> FALSE])]

\* Call i has returned; when it ran inside the promise of #speak, the
\* finally of #speak follows.
Returned(k, i) ==
  [(IF k.chains[i].finally THEN Finally(k) ELSE k) EXCEPT !.chains = RemoveAt(@, i)]

\* #handleNavigationWithoutSSML at either end of the only section:
\* initSection() is false, await this.stop().
StopAtEnd(k, i) ==
  [StopEnter(k) EXCEPT !.chains[i].kind = "stop", !.chains[i].pc = "stop"]

\* #speak after await this.stop(): a new AbortController and promise,
\* state 'playing', the batch built and the queue filled, and the client
\* generator obtained from ttsClient.speak(ssml, signal).
SpeakSession(k, i) ==
  LET c == k.chains[i]
      sid == Len(k.sessions) + 1
      k1 == [StopFinish(k) EXCEPT
               !.currentSpeakAbortController = sid,
               !.currentSpeakPromise = sid,
               !.state = "playing",
               !.sessions = Append(@, [aborted |-> FALSE, settled |-> "pending",
                                       consuming |-> FALSE])]
      b == IF c.fromRemoteQueue THEN [k |-> k1, ssml |-> c.ssml]
           ELSE BuildRemoteBatchSSML(k1, c.ssml)
      k2 == FillRemoteBatchQueue(b.k)
  IN [k2 EXCEPT !.spoken = Append(@, [units |-> b.ssml, via |-> c.via,
                                      moved |-> k.moved]),
                !.moved = FALSE,
                !.sessions[sid].consuming = TRUE,
                !.chains[i] = [c EXCEPT !.pc = "consume", !.sid = sid, !.ssml = b.ssml]]

\* forward() after await this.stop().
ForwardBody(k, i) ==
  LET c == k.chains[i]
      k1 == IF c.isPlaying THEN StopFinish(k)
            ELSE [StopFinish(k) EXCEPT !.state = "forward-paused", !.moved = TRUE]
      b == IF k1.remoteBatchQueue # <<>>
           THEN [k |-> [k1 EXCEPT !.remoteBatchQueue = Tail(@)],
                 ssml |-> Head(k1.remoteBatchQueue)]
           ELSE IF k1.cursor < NumUnits
           THEN BuildRemoteBatchSSML([k1 EXCEPT !.cursor = @ + 1], <<k1.cursor + 1>>)
           ELSE [k |-> k1, ssml |-> <<>>]
      k2 == FillRemoteBatchQueue(b.k)
  IN IF b.ssml = <<>> THEN StopAtEnd(k2, i)
     ELSE IF c.isPlaying THEN Returned(CallSpeak(k2, b.ssml, TRUE, "forward"), i)
     ELSE Returned(k2, i)

\* backward() after await this.stop().
BackwardBody(k, i) ==
  LET c == k.chains[i]
      k1 == [StopFinish(k) EXCEPT
               !.remoteBatchQueue = <<>>,
               !.state = IF c.isPlaying THEN @ ELSE "backward-paused",
               !.moved = IF c.isPlaying THEN @ ELSE TRUE]
      k2 == [k1 EXCEPT !.cursor = @ - 1]
  IN IF k1.cursor <= 1 THEN StopAtEnd(k1, i)
     ELSE IF c.isPlaying THEN Returned(CallSpeak(k2, <<k2.cursor>>, FALSE, "backward"), i)
     ELSE Returned(k2, i)

\* What follows await this.stop() in call i.
AfterStop(k, i) ==
  CASE k.chains[i].kind = "speak" -> SpeakSession(k, i)
    [] k.chains[i].kind = "forward" -> ForwardBody(k, i)
    [] k.chains[i].kind = "backward" -> BackwardBody(k, i)
    [] k.chains[i].kind = "pause" -> Returned([StopFinish(k) EXCEPT !.state = "stop-paused"], i)
    [] OTHER -> Returned(StopFinish(k), i)

\* The for await of #speak receives an event, or the end of the generator
\* after an 'end' event.
OnClientEvent(k, i, code) ==
  LET s == k.chains[i].sid
      left == [k EXCEPT !.sessions[s].consuming = FALSE]
      resolved == [left EXCEPT !.sessions[s].settled =
                                 IF @ = "pending" THEN "resolved" ELSE @]
  IN IF k.sessions[s].aborted
     THEN [Finally(resolved) EXCEPT !.chains = RemoveAt(@, i)]
     ELSE IF code = "error"
     THEN [Finally([left EXCEPT !.sessions[s].settled = "rejected"])
             EXCEPT !.state = "stopped", !.chains = RemoveAt(@, i)]
     ELSE IF k.state = "playing"
     THEN [StopEnter(resolved) EXCEPT
             !.chains[i] = [kind |-> "forward", pc |-> "stop", isPlaying |-> TRUE,
                            ssml |-> <<>>, fromRemoteQueue |-> FALSE, via |-> "",
                            sid |-> s, finally |-> TRUE]]
     ELSE [Finally(resolved) EXCEPT !.chains = RemoveAt(@, i)]

Init ==
  /\ provider \in Providers
  /\ rate = InitialRate
  /\ isStopped = FALSE
  /\ audioElement = [exists |-> FALSE, playing |-> FALSE, handlers |-> 0, playPromise |-> 0]
  /\ audioCache = <<>>
  /\ audioPrefetchTasks = [k \in {} |-> 0]
  /\ prefetchInFlight = 0
  /\ prefetchWaiters = <<>>
  /\ tasks = <<>>
  /\ microtasks = <<>>
  /\ calls = <<>>
  /\ hist = [stopCalled |-> FALSE, faults |-> 0, envOps |-> 0, used |-> <<>>,
             cacheOps |-> 0]
  /\ segmenter = NoSegmenter
  /\ adapter = NoAdapter
  /\ settings = NoSettings
  /\ controller = NoController

TaskLevel == microtasks = <<>>
CallIds == 1..Len(calls)
Fault(s) == [s EXCEPT !.hist.faults = @ + 1]
EnvOp(s) == [s EXCEPT !.hist.envOps = @ + 1]

RECURSIVE SegsSoFar(_)
SegsSoFar(k) == IF k = 0 THEN 0 ELSE calls[k].n + SegsSoFar(k - 1)

\* microtasks
RunAcquire ==
  /\ microtasks # <<>> /\ Head(microtasks).kind = "acq"
  /\ Commit(ResumeWaiter([Cur EXCEPT !.microtasks = Tail(@)], Head(microtasks).id))

RunRequest ==
  /\ microtasks # <<>> /\ Head(microtasks).kind = "req"
  /\ Commit(RequestAudioBuffer([Cur EXCEPT !.microtasks = Tail(@)], Head(microtasks).id))

RunContinuation ==
  /\ microtasks # <<>> /\ Head(microtasks).kind = "gen"
  /\ Commit(Continue([Cur EXCEPT !.microtasks = Tail(@)], Head(microtasks).id))

\* calls made by the consumer and the user interface
Speak(preload, n) ==
  /\ TaskLevel /\ Len(calls) < MaxCalls
  /\ SegsSoFar(Len(calls)) + n <= MaxTotalSegs
  /\ Commit(SpeakBody(Cur, preload, n))

Pull(c) ==
  /\ TaskLevel /\ calls[c].pc = "yBoundary"
  /\ Commit(IF calls[c].stream THEN ResumeStream(Cur, c) ELSE ResumeBuffered(Cur, c))

Abort(c) ==
  /\ TaskLevel /\ hist.envOps < MaxEnvOps
  /\ ~calls[c].aborted /\ calls[c].pc # "done"
  /\ LET s1 == EnvOp([Cur EXCEPT !.calls[c].aborted = TRUE]) IN
     Commit(IF calls[c].pc \in {"mseOpen", "playMSE"}
            THEN Enqueue([s1 EXCEPT !.calls[c].pc = "mseRejected",
                                    !.calls[c].reading = FALSE], Job("gen", c))
            ELSE s1)

Stop ==
  /\ TaskLevel /\ hist.envOps < MaxEnvOps
  /\ Commit(EnvOp([StopBody(Cur) EXCEPT !.hist.stopCalled = TRUE]))

SetRate(r) ==
  /\ TaskLevel /\ hist.envOps < MaxEnvOps
  /\ r # rate
  /\ Commit(EnvOp([Cur EXCEPT !.rate = r]))

\* network
NetOk(t) ==
  /\ TaskLevel /\ tasks[t].st = "inflight"
  /\ Commit(SettleTask([Cur EXCEPT !.tasks[t].status = 200,
                                   !.tasks[t].contentType = <<"audio/mpeg">>], t, TRUE))

NetFail(t, status) ==
  /\ TaskLevel /\ tasks[t].st = "inflight" /\ hist.faults < MaxFaults
  /\ Commit(Fault(SettleTask([Cur EXCEPT !.tasks[t].status = status], t, FALSE)))

ResponseArrives(c, i, status) ==
  /\ TaskLevel /\ calls[c].responses[i] = "pending"
  /\ status # 200 => hist.faults < MaxFaults
  /\ LET ok == status = 200
         s1 == [Cur EXCEPT !.calls[c].responses[i] = IF ok THEN "ok" ELSE "fail",
                           !.calls[c].status[i] = status]
         s2 == IF ok THEN s1 ELSE Fault(s1)
     IN Commit(IF calls[c].pc = "awaitResp" /\ calls[c].idx + 1 = i
               THEN Enqueue(s2, Job("gen", c)) ELSE s2)

\* playBufferedResponse after await response.arrayBuffer(): the shared
\* element, no retry.
BodyRead(c) ==
  /\ TaskLevel /\ calls[c].pc = "readBody"
  /\ Commit(PlayOnShared(Cur, c, "playOnce"))

\* media elements
PlayResolved ==
  /\ TaskLevel /\ audioElement.playPromise # 0
  /\ Commit([Cur EXCEPT !.audioElement.playPromise = 0])

Listening(c) == c # 0 /\ calls[c].pc \in {"playShared", "playOnce"}

SharedEnded ==
  /\ TaskLevel /\ audioElement.playing /\ audioElement.playPromise = 0
  /\ LET c == audioElement.handlers
         s1 == [Cur EXCEPT !.audioElement.playing = FALSE]
     IN Commit(IF Listening(c) THEN LoopNext(s1, c) ELSE s1)

SharedError ==
  /\ TaskLevel /\ audioElement.playing /\ hist.faults < MaxFaults
  /\ Listening(audioElement.handlers)
  /\ LET c == audioElement.handlers
         s1 == Fault([Cur EXCEPT !.audioElement.playing = FALSE,
                                 !.audioElement.playPromise = 0])
     IN Commit(IF calls[c].pc = "playShared" THEN PlayOnFallback(s1, c)
               ELSE Finish(s1, c, Event("error", -1, "playback")))

\* MediaSource playback of one streamed response
SourceOpen(c) ==
  /\ TaskLevel /\ calls[c].pc = "mseOpen"
  /\ Commit(IF Cancelled(Cur, c)
            THEN Finish(Cur, c, Event("error", -1, "Aborted"))
            ELSE [Cur EXCEPT !.calls[c].pc = "playMSE",
                             !.calls[c].local = "playing",
                             !.calls[c].reading = TRUE,
                             !.calls[c].plays = Append(@, calls[c].idx)])

MseChunk(c) ==
  /\ TaskLevel /\ calls[c].pc = "playMSE" /\ calls[c].reading
  /\ Cancelled(Cur, c)
  /\ Commit(Finish([Cur EXCEPT !.calls[c].reading = FALSE], c,
                   Event("error", -1, "Aborted")))

MseStreamDone(c) ==
  /\ TaskLevel /\ calls[c].pc = "playMSE" /\ calls[c].reading
  /\ Commit([Cur EXCEPT !.calls[c].reading = FALSE])

LocalEnded(c) ==
  /\ TaskLevel /\ calls[c].local = "playing" /\ ~calls[c].reading
  /\ LET s1 == [Cur EXCEPT !.calls[c].local = "idle"] IN
     Commit(IF calls[c].pc \in {"playFallback", "playMSE"} THEN LoopNext(s1, c) ELSE s1)

LocalError(c) ==
  /\ TaskLevel /\ calls[c].local = "playing" /\ hist.faults < MaxFaults
  /\ calls[c].pc \in {"playFallback", "playMSE"}
  /\ Commit(Finish(Fault([Cur EXCEPT !.calls[c].local = "idle",
                                     !.calls[c].reading = FALSE]), c,
                   Event("error", -1, "playback")))

\* flushQueue: sourceBuffer.appendBuffer throws for a chunk that was read
\* while the element is playing; fail() cleans up and rejects, and the catch
\* of the streaming loop yields the error.
AppendFails(c) ==
  /\ TaskLevel /\ calls[c].pc = "playMSE" /\ calls[c].reading
  /\ hist.faults < MaxFaults
  /\ Commit(Finish(Fault([Cur EXCEPT !.calls[c].local = "idle",
                                     !.calls[c].reading = FALSE]), c,
                   Event("error", -1, "append")))

Next ==
  \/ RunAcquire
  \/ RunRequest
  \/ RunContinuation
  \/ \E preload \in BOOLEAN, n \in 0..MaxSegs : Speak(preload, n)
  \/ \E c \in CallIds : Pull(c)
  \/ \E c \in CallIds : Abort(c)
  \/ Stop
  \/ \E r \in Rates : SetRate(r)
  \/ \E t \in 1..Len(tasks) : NetOk(t)
  \/ \E t \in 1..Len(tasks), status \in FailStatuses : NetFail(t, status)
  \/ \E c \in CallIds : \E i \in 1..calls[c].n, status \in {200} \cup FailStatuses :
        ResponseArrives(c, i, status)
  \/ \E c \in CallIds : BodyRead(c)
  \/ PlayResolved
  \/ SharedEnded
  \/ SharedError
  \/ \E c \in CallIds : SourceOpen(c)
  \/ \E c \in CallIds : MseChunk(c)
  \/ \E c \in CallIds : MseStreamDone(c)
  \/ \E c \in CallIds : LocalEnded(c)
  \/ \E c \in CallIds : LocalError(c)
  \/ \E c \in CallIds : AppendFails(c)

Spec == Init /\ [][Next]_vars


(***************************************************************************)
(* Properties                                                              *)
(***************************************************************************)
Boundaries(k) == {j \in 1..Len(k.events) : k.events[j].code = "boundary"}
BoundaryCount(k) == Cardinality(Boundaries(k))
Terminals(k) == {j \in 1..Len(k.events) : k.events[j].code \in {"end", "error"}}
LastEvent(k) == k.events[Len(k.events)]

\* An element is playing audio that call c started and still listens to.
PlayingFor(c) ==
  \/ audioElement.playing /\ audioElement.handlers = c
  \/ calls[c].local = "playing" /\ calls[c].pc \in {"playFallback", "playMSE"}

\* C1: within one speak() call the boundary events carry the anchors of
\* segments 0,1,2,... in that order without gaps; the audio of segment i is
\* started only after boundary i was emitted and segments are started in
\* document order; boundary i+1 is emitted only after the playback of segment
\* i has ended, so while the call is at a boundary or waits for audio no
\* element plays for it.
C1_Ordering ==
  \A c \in CallIds :
    LET k == calls[c] IN
    /\ \A j \in Boundaries(k) :
         /\ k.events[j].mark = AnchorMark(j - 1)
         /\ \A i \in 1..(j - 1) : i \in Boundaries(k)
    /\ \A j \in 1..Len(k.plays) :
         /\ k.plays[j] < BoundaryCount(k)
         /\ k.plays[j] <= k.played
         /\ j = 1 => k.plays[j] = 0
         /\ j > 1 => k.plays[j] \in {k.plays[j - 1], k.plays[j - 1] + 1}
    /\ BoundaryCount(k) <= k.played + 1
    /\ k.pc \in {"yBoundary", "awaitAudio", "awaitResp", "readBody", "mseOpen"}
         => ~PlayingFor(c)

\* A buffered utterance of three segments that was played to its end although
\* the audio of segment 2 arrived before the audio of segment 1.
C1_Witness ==
  /\ Len(calls) = 1 /\ calls[1].n = 3 /\ ~calls[1].stream /\ ~calls[1].preload
  /\ calls[1].pc = "done" /\ LastEvent(calls[1]).code = "end"
  /\ calls[1].plays = <<0, 1, 2>>
  /\ CacheHas(Cur, BuildAudioCacheKey(Cur, Cfg, SegmentText(1)))
  /\ CacheHas(Cur, BuildAudioCacheKey(Cur, Cfg, SegmentText(2)))
  /\ CacheIndex(audioCache, BuildAudioCacheKey(Cur, Cfg, SegmentText(2)))
       < CacheIndex(audioCache, BuildAudioCacheKey(Cur, Cfg, SegmentText(1)))

TaskIds == 1..Len(tasks)
TasksIn(states) == {t \in TaskIds : tasks[t].st \in states}

\* C2: while stop() has not been called, the synthesis requests that were
\* issued and have not settled are at most #maxPrefetchInFlight, the counter
\* is exactly the number of tasks that hold a slot, and this also holds in
\* the step where a waiter was woken and has not yet counted itself.
C2_SemaphoreBound ==
  ~hist.stopCalled =>
    /\ Cardinality(TasksIn({"inflight"})) <= maxPrefetchInFlight
    /\ Cardinality(TasksIn({"acquired", "inflight"})) = prefetchInFlight
    /\ prefetchInFlight + Cardinality(TasksIn({"woken"})) <= maxPrefetchInFlight

\* A freed slot was handed to a queued waiter that has not yet incremented
\* the counter, while another request is in flight and a further task waits.
C2_Witness ==
  /\ ~hist.stopCalled
  /\ TasksIn({"woken"}) # {}
  /\ TasksIn({"inflight"}) # {}
  /\ TasksIn({"waiting"}) # {}
  /\ prefetchInFlight = maxPrefetchInFlight - 1

\* C3: while stop() has not been called (and nothing was evicted), two
\* prefetch tasks for one key exist only if the earlier one failed: requests
\* for a key that is cached or in flight issue no second network call, they
\* get the cached entry or the promise of the task in flight.
C3_Dedup ==
  ~hist.stopCalled =>
    /\ \A t1, t2 \in TaskIds :
         t1 < t2 /\ tasks[t1].key = tasks[t2].key => tasks[t1].st = "failed"
    /\ \A key \in DOMAIN audioPrefetchTasks :
         /\ tasks[audioPrefetchTasks[key]].key = key
         /\ ~TaskSettled(Cur, audioPrefetchTasks[key])
    /\ \A c \in CallIds : \A i \in 1..calls[c].n :
         calls[c].promises[i].kind = "cached" =>
           \E t \in TaskIds : /\ tasks[t].st = "ok"
                              /\ tasks[t].text = calls[c].promises[i].data.text

\* Two speak() calls asked for the same key: the second one shares the task
\* of the first while it is in flight, and a later request got the cached
\* audio, with one network call in all.
C3_Witness ==
  /\ ~hist.stopCalled /\ Len(calls) = 2 /\ Len(tasks) = 2
  /\ calls[1].n >= 1 /\ calls[2].n >= 2
  /\ calls[1].promises[1].kind = "task" /\ calls[2].promises[1] = calls[1].promises[1]
  /\ calls[2].promises[2].kind = "cached"
  /\ \A t \in TaskIds : tasks[t].st = "ok"

\* C4: a speak() call starts no audio playback once its abort signal is
\* aborted or stop() was called with no speak() after it (stated for runs
\* with a single speak() call, so that no other call is involved).
C4_NoPlaybackAfterCancel ==
  Len(calls) = 1 => ~calls[1].lateStart

\* C5: after the abort signal of a speak() call fired while the call was
\* running, no synthesis request is issued for that call alone: neither by
\* a prefetch task (one that waited for a slot included) nor by the
\* streaming loop.
C5_NoRequestAfterAbort ==
  /\ \A t \in TaskIds : ~tasks[t].late
  /\ \A c \in CallIds : ~calls[c].lateReq

\* Some audio element created by the client is playing.
AnyElementPlaying ==
  \/ audioElement.playing
  \/ \E c \in CallIds : calls[c].local = "playing"

\* C6: in the state in which stop() returns, no audio element created by
\* the client is playing: not the shared element, not the fresh element of
\* a buffered retry, not the element of a MediaSource playback.
C6_StopSilencesAll == [][Stop => ~AnyElementPlaying']_vars

FailsNow(t) == t \in TaskIds /\ tasks[t].st = "inflight" /\ tasks'[t].st = "failed"

\* Call c obtains the promise of segment index i - 1 in this step.
ObtainsPromise(c, i) ==
  /\ c \in 1..Len(calls') /\ i \in 1..calls'[c].n
  /\ calls'[c].promises[i].kind # "none"
  /\ c \in CallIds => calls[c].promises[i].kind = "none"

SynthesisError(k) == k.events # <<>> /\ LastEvent(k).code = "error"
                     /\ LastEvent(k).why \in {HttpErrorMessage(x) : x \in FailStatuses}

\* C8, state part: a buffered speak() call ends with a synthesis error only
\* if the segment it awaited is the one whose task failed; a failed task is
\* not registered in the in-flight map, holds no slot and its failure is not
\* in the cache.
C8_FailureState ==
  /\ \A c \in CallIds :
       LET k == calls[c] IN
       (~k.stream /\ ~k.preload /\ SynthesisError(k)) =>
          /\ k.idx < k.n
          /\ PromiseFailed(Cur, k.promises[k.idx + 1])
          /\ BoundaryCount(k) = k.idx + 1
  /\ \A key \in DOMAIN audioPrefetchTasks :
       tasks[audioPrefetchTasks[key]].st # "failed"
  /\ ~hist.stopCalled =>
       prefetchInFlight = Cardinality(TasksIn({"acquired", "inflight"}))
  /\ \A i \in 1..Len(audioCache) :
       \E t \in TaskIds : tasks[t].st = "ok" /\ tasks[t].key = audioCache[i].key

\* C8, step part: the step in which a synthesis fails leaves the cache as it
\* was, removes the key from the in-flight map and gives back the slot; and
\* a promise handed to a speak() call is never one of a task that has
\* already failed, so a later speak() for the text issues a new request.
C8_FailureStep ==
  /\ \A t \in TaskIds :
       FailsNow(t) =>
         /\ audioCache' = audioCache
         /\ tasks[t].key \notin DOMAIN audioPrefetchTasks'
         /\ ~hist.stopCalled =>
              prefetchInFlight' = prefetchInFlight - 1
  /\ \A c \in 1..Len(calls') : \A i \in 1..calls'[c].n :
       ObtainsPromise(c, i) => ~PromiseFailed(Cur', calls'[c].promises[i])

\* C8: when the synthesis of a segment fails, only the speak() call that
\* awaits that segment gets the terminal error; afterwards the in-flight map
\* has no entry for the failed key, its slot is released, the cache entries
\* of other keys are unchanged, and a later speak() for the same text issues
\* a new request instead of replaying the failure.
C8_FailureHandling == []C8_FailureState /\ [][C8_FailureStep]_vars

\* The request for a text failed and ended the first call with an error
\* while the audio of another text stayed cached; a second call asked for
\* the same text and got a new task, whose request succeeded.
C8_Witness ==
  /\ Len(calls) = 2 /\ ~calls[1].stream /\ ~calls[1].preload
  /\ SynthesisError(calls[1])
  /\ \E t1, t2 \in TaskIds :
       /\ t1 < t2 /\ tasks[t1].key = tasks[t2].key
       /\ tasks[t1].st = "failed" /\ tasks[t2].st = "ok"
       /\ WantedBy(Cur, t1) = {1} /\ WantedBy(Cur, t2) = {2}
  /\ Len(audioCache) >= 2

\* The request for the segment at index i of call c has failed.
SegmentFailed(c, i) ==
  IF calls[c].stream THEN calls[c].responses[i + 1] = "fail"
  ELSE PromiseFailed(Cur, calls[c].promises[i + 1])

\* C9: a speak() call reports a synthesis failure only for the segment it
\* is awaiting: the error follows the boundary of the failed segment j and
\* the playback of all segments before j; while an earlier segment is
\* awaited or played the failure of a prefetched segment produces no event,
\* and a call that is cancelled before it reaches j reports 'Aborted'.
C9_PrefetchFailureDeferred ==
  \A c \in CallIds :
    LET k == calls[c] IN
    (~k.preload /\ SynthesisError(k)) =>
        /\ k.idx < k.n /\ SegmentFailed(c, k.idx)
        /\ BoundaryCount(k) = k.idx + 1
        /\ k.played = k.idx
        /\ \A i \in 0..(k.idx - 1) : \E j \in 1..Len(k.plays) : k.plays[j] = i

\* Segment 0 of a buffered call is being played, the prefetch request for
\* segment 1 has already failed, and the call has emitted boundary 0 only.
C9_Witness ==
  /\ Len(calls) = 1 /\ calls[1].n = 3 /\ ~calls[1].stream /\ ~calls[1].preload
  /\ calls[1].idx = 0 /\ calls[1].pc = "playShared"
  /\ PromiseFailed(Cur, calls[1].promises[2])
  /\ calls[1].events = <<Event("boundary", AnchorMark(0), "")>>

\* C10: the audio stored under a cache key was synthesized at the rate that
\* the key names (and for the text that the key names).
C10_CacheRateMatchesKey ==
  \A i \in 1..Len(audioCache) :
    /\ ToFixed2(audioCache[i].data.speed) = audioCache[i].key[2]
    /\ audioCache[i].data.text = audioCache[i].key[3]

(***************************************************************************)
(* The audio cache on its own: getCachedAudio and setCachedAudio applied   *)
(* to a cache that earlier utterances have filled up to one entry below    *)
(* its capacity.                                                           *)
(***************************************************************************)
FilledText(i) == 100 + i
FilledKey(i) == <<Cfg, ToFixed2(InitialRate), FilledText(i)>>

\* texts read and written: the two oldest and the newest of the filled
\* cache, and two texts that are not cached
ProbeTexts == {FilledText(1), FilledText(2), FilledText(preloadCacheMaxEntries - 1),
               FilledText(preloadCacheMaxEntries), FilledText(preloadCacheMaxEntries + 1)}

InitCache ==
  /\ provider = "buffered"
  /\ rate = InitialRate
  /\ isStopped = FALSE
  /\ audioElement = [exists |-> FALSE, playing |-> FALSE, handlers |-> 0, playPromise |-> 0]
  /\ audioCache = [i \in 1..(preloadCacheMaxEntries - 1) |->
                     [key |-> FilledKey(i),
                      data |-> [text |-> FilledText(i), speed |-> InitialRate]]]
  /\ audioPrefetchTasks = [k \in {} |-> 0]
  /\ prefetchInFlight = 0
  /\ prefetchWaiters = <<>>
  /\ tasks = <<>>
  /\ microtasks = <<>>
  /\ calls = <<>>
  /\ hist = [stopCalled |-> FALSE, faults |-> 0, envOps |-> 0,
             used |-> [i \in 1..(preloadCacheMaxEntries - 1) |-> FilledKey(i)],
             cacheOps |-> 0]
  /\ segmenter = NoSegmenter
  /\ adapter = NoAdapter
  /\ settings = NoSettings
  /\ controller = NoController

CacheOp(s) == [s EXCEPT !.hist.cacheOps = @ + 1]

CacheRead(text) ==
  /\ hist.cacheOps < MaxCacheOps
  /\ Commit(CacheOp(GetCachedAudio(Cur, BuildAudioCacheKey(Cur, Cfg, text))))

CacheInsert(text) ==
  /\ hist.cacheOps < MaxCacheOps
  /\ Commit(CacheOp(SetCachedAudio(Cur, BuildAudioCacheKey(Cur, Cfg, text),
                                   [text |-> text, speed |-> rate])))

NextCache ==
  \/ \E text \in ProbeTexts : CacheRead(text)
  \/ \E text \in ProbeTexts : CacheInsert(text)

SpecCache == InitCache /\ [][NextCache]_vars

(* ---- the segmenter on its own ---- *)
\* buildRemoteTTSSegments is entered with a mark list and options; the
\* marks are drawn one by one as the loop reaches them.
InitSegmenter ==
  /\ adapter = NoAdapter
  /\ settings = NoSettings
  /\ controller = NoController
  /\ provider = "buffered"
  /\ rate = InitialRate
  /\ isStopped = FALSE
  /\ audioElement = [exists |-> FALSE, playing |-> FALSE, handlers |-> 0, playPromise |-> 0]
  /\ audioCache = <<>>
  /\ audioPrefetchTasks = [k \in {} |-> 0]
  /\ prefetchInFlight = 0
  /\ prefetchWaiters = <<>>
  /\ tasks = <<>>
  /\ microtasks = <<>>
  /\ calls = <<>>
  /\ hist = [stopCalled |-> FALSE, faults |-> 0, envOps |-> 0, used |-> <<>>,
             cacheOps |-> 0]
  /\ \E p \in Limits, a \in Limits, m \in Limits :
       segmenter = Entered([preferredMaxChars |-> p, absoluteMaxChars |-> a,
                            minCharsPerSegment |-> m])

\* The body of for (const mark of marks) for the next mark of the list.
VisitMark(g0, text) ==
  LET g == [g0 EXCEPT !.marks = Append(@, text)]
      index == Len(g.marks)
  IN IF SplitDiverges(text, PerPieceLimit(g)) THEN [g EXCEPT !.pc = "diverged"]
     ELSE AppendPieces(g, SplitByAbsoluteLimit(text, PerPieceLimit(g)), index)

\* One iteration of for (const mark of marks).
ForMark(text) ==
  /\ segmenter.pc = "loop" /\ Len(segmenter.marks) < MaxMarks
  /\ segmenter' = VisitMark(segmenter, text)
  /\ UNCHANGED <<clientVars, adapter, settings, controller>>

\* After the last mark: flush(); return segments.
ReturnSegments ==
  /\ segmenter.pc = "loop"
  /\ segmenter' = [Flush(segmenter) EXCEPT !.pc = "returned"]
  /\ UNCHANGED <<clientVars, adapter, settings, controller>>

NextSegmenter ==
  \/ \E text \in Texts : ForMark(text)
  \/ ReturnSegments

SpecSegmenter == InitSegmenter /\ [][NextSegmenter]_vars

(* ---- the segmenter on the mark lists of the reader ---- *)
\* The client before its first call.
ClientAtRest ==
  /\ provider = "buffered"
  /\ rate = InitialRate
  /\ isStopped = FALSE
  /\ audioElement = [exists |-> FALSE, playing |-> FALSE, handlers |-> 0, playPromise |-> 0]
  /\ audioCache = <<>>
  /\ audioPrefetchTasks = [k \in {} |-> 0]
  /\ prefetchInFlight = 0
  /\ prefetchWaiters = <<>>
  /\ tasks = <<>>
  /\ microtasks = <<>>
  /\ calls = <<>>
  /\ hist = [stopCalled |-> FALSE, faults |-> 0, envOps |-> 0, used |-> <<>>,
             cacheOps |-> 0]

\* Short sentences of a Chinese text (U+7B2C, a numeral, U+53E5, U+3002)
\* and the words of a Latin one.
ZhSentence(numeral) == <<"U+7B2C", numeral, "U+53E5", "U+3002">>
ZhNumerals == <<"U+4E00", "U+4E8C", "U+4E09", "U+56DB">>
LatinWords == <<
  <<"H", "e", "l", "l", "o">>,
  <<"w", "o", "r", "l", "d", ".">>,
  <<"H", "o", "w">>,
  <<"a", "r", "e", " ", "y", "o", "u", "?">> >>
ScenarioTexts ==
  {ZhSentence(ZhNumerals[i]) : i \in 1..4} \cup {LatinWords[i] : i \in 1..4}
ScenarioOptions ==
  {[preferredMaxChars |-> 12, absoluteMaxChars |-> 500, minCharsPerSegment |-> 6],
   [preferredMaxChars |-> 64, absoluteMaxChars |-> 500, minCharsPerSegment |-> 8]}

InitScenario ==
  /\ adapter = NoAdapter
  /\ settings = NoSettings
  /\ controller = NoController
  /\ ClientAtRest
  /\ \E options \in ScenarioOptions :
       segmenter = Entered(options)

ForScenarioMark(text) ==
  /\ segmenter.pc = "loop" /\ Len(segmenter.marks) < MaxScenarioMarks
  /\ segmenter' = VisitMark(segmenter, text)
  /\ UNCHANGED <<clientVars, adapter, settings, controller>>

NextScenario ==
  \/ \E text \in ScenarioTexts : ForScenarioMark(text)
  \/ ReturnSegments

SpecScenario == InitScenario /\ [][NextScenario]_vars

(* ---- the segmenter on one long paragraph ---- *)
\* A Latin paragraph of n characters without punctuation: words of wordLen
\* letters separated by single spaces, ending with a letter.
LatinParagraph(n, wordLen) ==
  [i \in 1..n |-> IF i % (wordLen + 1) = 0 /\ i < n THEN " " ELSE "a"]
ParagraphLengths == (700 - ParagraphSpread)..(700 + ParagraphSpread)
WordLengths == {4, 7, 1000}

\* Called with { absoluteMaxChars: 500 }: the other options are undefined
\* and take their defaults.
InitParagraph ==
  /\ adapter = NoAdapter
  /\ settings = NoSettings
  /\ controller = NoController
  /\ ClientAtRest
  /\ segmenter = Entered([DEFAULT_OPTIONS EXCEPT !.absoluteMaxChars = 500])

ForParagraph(n, wordLen) ==
  /\ segmenter.pc = "loop" /\ segmenter.marks = <<>>
  /\ segmenter' = VisitMark(segmenter, LatinParagraph(n, wordLen))
  /\ UNCHANGED <<clientVars, adapter, settings, controller>>

NextParagraph ==
  \/ \E n \in ParagraphLengths, wordLen \in WordLengths : ForParagraph(n, wordLen)
  \/ ReturnSegments

SpecParagraph == InitParagraph /\ [][NextParagraph]_vars

(* ---- one call of an adapter method ---- *)
InitAdapter ==
  /\ ClientAtRest
  /\ segmenter = NoSegmenter
  /\ settings = NoSettings
  /\ controller = NoController
  /\ \E method \in Methods, baseUrl \in BaseUrls, input \in Inputs :
       adapter = [NoAdapter EXCEPT !.pc = "called", !.method = method,
                                   !.baseUrl = baseUrl, !.input = input]

besideAdapter == <<clientVars, segmenter, settings, controller>>

\* The method runs to its first await.
AdapterCalled ==
  /\ adapter.pc = "called"
  /\ adapter' = CallAdapter(adapter)
  /\ UNCHANGED besideAdapter

\* The fetch settles.
FetchSettles(outcome) ==
  /\ adapter.pc = "fetch"
  /\ adapter' = AfterFetch(adapter, outcome)
  /\ UNCHANGED besideAdapter

\* response.text() of a response that is not ok settles.
DetailsSettle(payload) ==
  /\ adapter.pc = "details"
  /\ adapter' = assertOkResponse(adapter, payload)
  /\ UNCHANGED besideAdapter

\* response.json() or response.arrayBuffer() of an ok response settles.
BodySettles(payload) ==
  /\ adapter.pc = "body"
  /\ adapter' = AfterBody(adapter, payload)
  /\ UNCHANGED besideAdapter

NextAdapter ==
  \/ AdapterCalled
  \/ \E outcome \in FetchOutcomes : FetchSettles(outcome)
  \/ \E payload \in Payloads : DetailsSettle(payload)
  \/ \E payload \in Payloads : BodySettles(payload)

SpecAdapter == InitAdapter /\ [][NextAdapter]_vars

(* ---- one call of normalizeTTSSettings ---- *)
InitSettings ==
  /\ ClientAtRest
  /\ segmenter = NoSegmenter
  /\ adapter = NoAdapter
  /\ controller = NoController
  /\ \E input \in RawSettings, legacy \in LegacyClients :
       settings = [NoSettings EXCEPT !.pc = "called", !.input = input,
                                     !.legacyPreferredClient = legacy]

NormalizeSettings ==
  /\ settings.pc = "called"
  /\ settings' = [settings EXCEPT
                    !.pc = "returned",
                    !.output = normalizeTTSSettings(settings.input,
                                                    settings.legacyPreferredClient)]
  /\ UNCHANGED <<clientVars, segmenter, adapter, controller>>

NextSettings == NormalizeSettings

SpecSettings == InitSettings /\ [][NextSettings]_vars

(* ---- one buffered speak() call with a consumer that keeps pulling ---- *)
InitTermination ==
  /\ ClientAtRest
  /\ segmenter = NoSegmenter
  /\ adapter = NoAdapter
  /\ settings = NoSettings
  /\ controller = NoController

\* The only speak() call of the run.
SpeakOnce(n) == Len(calls) = 0 /\ Speak(FALSE, n)

NextTermination ==
  \/ RunAcquire
  \/ RunRequest
  \/ RunContinuation
  \/ \E n \in 1..MaxSegs : SpeakOnce(n)
  \/ \E c \in CallIds : Pull(c)
  \/ Stop
  \/ \E t \in 1..Len(tasks) : NetOk(t)
  \/ PlayResolved
  \/ SharedEnded
  \/ \E c \in CallIds : LocalEnded(c)

\* Microtasks run, the consumer pulls, every request is answered, play()
\* resolves and audio that is playing reaches its end.
FairTermination ==
  /\ WF_vars(RunAcquire)
  /\ WF_vars(RunRequest)
  /\ WF_vars(RunContinuation)
  /\ WF_vars(\E c \in CallIds : Pull(c))
  /\ WF_vars(\E t \in 1..Len(tasks) : NetOk(t))
  /\ WF_vars(PlayResolved)
  /\ WF_vars(SharedEnded)
  /\ WF_vars(\E c \in CallIds : LocalEnded(c))

SpecTermination == InitTermination /\ [][NextTermination]_vars /\ FairTermination

(* ---- the buffered path with responses of every kind ---- *)
ResponseStatuses == {200, 204, 401}

InitResponses ==
  /\ ClientAtRest
  /\ segmenter = NoSegmenter
  /\ adapter = NoAdapter
  /\ settings = NoSettings
  /\ controller = NoController

\* The synthesis request of task t is answered: ensureAudioResponse decides
\* whether the task resolves, and with it whether setCachedAudio runs.
Respond(t, status, contentType) ==
  /\ TaskLevel /\ tasks[t].st = "inflight"
  /\ Commit(SettleTask([Cur EXCEPT !.tasks[t].status = status,
                                   !.tasks[t].contentType = contentType],
                       t, EnsureAudioResponse(status, contentType) = "ok"))

\* The request of task t is rejected without a response (the network fails
\* or the request times out).
RequestRejects(t) ==
  /\ TaskLevel /\ tasks[t].st = "inflight"
  /\ Commit(SettleTask(Cur, t, FALSE))

\* Calls of one segment: a task never has to wait for a slot.
NextResponses ==
  \/ RunRequest
  \/ RunContinuation
  \/ \E preload \in BOOLEAN : Speak(preload, 1)
  \/ \E c \in CallIds : Pull(c)
  \/ Stop
  \/ \E t \in 1..Len(tasks), status \in ResponseStatuses, contentType \in ContentTypes :
        Respond(t, status, contentType)
  \/ \E t \in 1..Len(tasks) : RequestRejects(t)
  \/ PlayResolved
  \/ SharedEnded

SpecResponses == InitResponses /\ [][NextResponses]_vars

(* ---- withDefaults on its own ---- *)
MaxOption == 6
OptionValues == 0..MaxOption

\* buildRemoteTTSSegments has been called with three numbers as options.
InitOptions ==
  /\ adapter = NoAdapter
  /\ settings = NoSettings
  /\ controller = NoController
  /\ ClientAtRest
  /\ \E p \in OptionValues, a \in OptionValues, m \in OptionValues :
       segmenter = [NoSegmenter EXCEPT
                      !.pc = "called",
                      !.given = [preferredMaxChars |-> p, absoluteMaxChars |-> a,
                                 minCharsPerSegment |-> m]]

\* const { ... } = withDefaults(options)
ApplyDefaults ==
  /\ segmenter.pc = "called"
  /\ segmenter' = Entered(segmenter.given)
  /\ UNCHANGED <<clientVars, adapter, settings, controller>>

NextOptions == ApplyDefaults

SpecOptions == InitOptions /\ [][NextOptions]_vars

(* ---- the loop of splitByAbsoluteLimit, one iteration at a time ---- *)
\* The loop does not look at minCharsPerSegment: it is given as 1 or as the
\* largest limit.
InitSplit ==
  /\ adapter = NoAdapter
  /\ settings = NoSettings
  /\ controller = NoController
  /\ ClientAtRest
  /\ \E p \in Limits, a \in Limits, m \in {1, MaxLimit} :
       segmenter = Entered([preferredMaxChars |-> p, absoluteMaxChars |-> a,
                            minCharsPerSegment |-> m])

MaxSplitMarks == 1

\* splitByAbsoluteLimit(mark.text, perPieceLimit) is entered for the next
\* mark: let remaining = normalizeText(text).
SplitEnter(text) ==
  /\ segmenter.pc = "loop" /\ Len(segmenter.marks) < MaxSplitMarks
  /\ segmenter' = [segmenter EXCEPT !.pc = "split",
                                    !.marks = Append(@, text),
                                    !.remaining = NormalizeText(text),
                                    !.chunks = <<>>]
  /\ UNCHANGED <<clientVars, adapter, settings, controller>>

\* What one iteration of the while loop leaves in remaining.
RemainingAfter(remaining, limit) ==
  LET idx == PickBestBreakIndex(remaining, limit)
  IN NormalizeText(SubSeq(remaining, idx + 1, Len(remaining)))

\* One iteration of while (remaining.length > absoluteMaxChars).
SplitIteration ==
  /\ segmenter.pc = "split"
  /\ Len(segmenter.remaining) > PerPieceLimit(segmenter)
  /\ LET idx == PickBestBreakIndex(segmenter.remaining, PerPieceLimit(segmenter))
         head == NormalizeText(SubSeq(segmenter.remaining, 1, idx))
     IN segmenter' =
          [segmenter EXCEPT
             !.chunks = IF head # <<>> THEN Append(@, head) ELSE @,
             !.remaining = RemainingAfter(segmenter.remaining,
                                          PerPieceLimit(segmenter))]
  /\ UNCHANGED <<clientVars, adapter, settings, controller>>

\* The loop is left: the rest is the last chunk, and the chunks go to
\* appendPiece one by one.
SplitReturn ==
  /\ segmenter.pc = "split"
  /\ ~(Len(segmenter.remaining) > PerPieceLimit(segmenter))
  /\ LET chunks == IF segmenter.remaining # <<>>
                   THEN Append(segmenter.chunks, segmenter.remaining)
                   ELSE segmenter.chunks
         g == [segmenter EXCEPT !.pc = "loop", !.remaining = <<>>, !.chunks = <<>>]
     IN segmenter' = AppendPieces(g, chunks, Len(segmenter.marks))
  /\ UNCHANGED <<clientVars, adapter, settings, controller>>

\* The marks of a list visited in order, each in one piece.
RECURSIVE VisitMarks(_, _)
VisitMarks(g, marks) ==
  IF marks = <<>> \/ g.pc = "diverged" THEN g
  ELSE VisitMarks(VisitMark(g, Head(marks)), Tail(marks))

\* buildRemoteTTSSegments is called again with the same marks and options.
CallAgain ==
  /\ segmenter.pc = "returned"
  /\ LET g == VisitMarks(Entered(segmenter.given), segmenter.marks)
     IN segmenter' = [segmenter EXCEPT
                        !.pc = IF g.pc = "diverged" THEN "diverged" ELSE "again",
                        !.again = Flush(g).segments]
  /\ UNCHANGED <<clientVars, adapter, settings, controller>>

NextSplit ==
  \/ \E text \in Texts : SplitEnter(text)
  \/ SplitIteration
  \/ SplitReturn
  \/ ReturnSegments
  \/ CallAgain

\* A running call goes on: a loop that can take a step takes it, and a
\* function that has reached its return returns.
FairSplit == WF_vars(SplitIteration \/ SplitReturn \/ ReturnSegments)

SpecSplit == InitSplit /\ [][NextSplit]_vars /\ FairSplit

(* ---- the TTSController and its user ---- *)
InitController ==
  /\ ClientAtRest
  /\ segmenter = NoSegmenter
  /\ adapter = NoAdapter
  /\ settings = NoSettings
  /\ controller = NoController

besideController == <<clientVars, segmenter, adapter, settings>>

\* The user, or the application for the user, calls a method.
Called == [controller EXCEPT !.ops = @ + 1]

\* start(): the queue is dropped unless the state is a paused one, the SSML
\* comes from the walker, and #speak is called without being awaited.
Start ==
  /\ controller.ops < MaxOps
  /\ LET paused == Called.state \in PausedStates
         k1 == IF paused THEN Called ELSE [Called EXCEPT !.remoteBatchQueue = <<>>]
         k2 == IF paused /\ k1.cursor >= 1 THEN k1 ELSE [k1 EXCEPT !.cursor = 1]
         k3 == IF paused THEN [k2 EXCEPT !.state = "playing"] ELSE k2
     IN controller' = CallSpeak(k3, <<k3.cursor>>, FALSE,
                                IF paused THEN "resume" ELSE "start")
  /\ UNCHANGED besideController

\* forward(), to its first await.
Forward ==
  /\ controller.ops < MaxOps
  /\ controller' = CallWithStop(Called, "forward", Called.state = "playing")
  /\ UNCHANGED besideController

\* backward(), to its first await.
Backward ==
  /\ controller.ops < MaxOps
  /\ controller' = CallWithStop(Called, "backward", Called.state = "playing")
  /\ UNCHANGED besideController

\* stop() called by the user.
ControllerStop ==
  /\ controller.ops < MaxOps
  /\ controller' = CallWithStop(Called, "stop", FALSE)
  /\ UNCHANGED besideController

\* pause(): the remote client cannot pause, its pause() resolves to false,
\* and the controller stops instead.
Pause ==
  /\ controller.ops < MaxOps
  /\ controller' = CallWithStop([Called EXCEPT !.state = "paused"], "pause", FALSE)
  /\ UNCHANGED besideController

\* setVoice() with a voice of the remote engine.
SetVoice ==
  /\ controller.ops < MaxOps
  /\ controller' = [Called EXCEPT !.state = "setvoice-paused", !.remoteBatchQueue = <<>>]
  /\ UNCHANGED besideController

\* ttsClient.stop() has resolved in the stop() of call i.  When there is a
\* current promise that has not settled, stop() waits for it in a race with
\* a timer of three seconds; otherwise it returns and the call goes on.
ClientStopped(i) ==
  /\ controller.chains[i].pc = "stop"
  /\ controller.chains[i].kind = "speak" => Len(controller.sessions) < MaxSessions
  /\ controller' =
       IF /\ controller.currentSpeakPromise # 0
          /\ controller.sessions[controller.currentSpeakPromise].settled = "pending"
       THEN [controller EXCEPT !.chains[i].pc = "race"]
       ELSE AfterStop(controller, i)
  /\ UNCHANGED besideController

\* The race of stop() in call i is over: the promise has settled or the
\* timer has fired.
RaceEnds(i) ==
  /\ controller.chains[i].pc = "race"
  /\ controller.chains[i].kind = "speak" => Len(controller.sessions) < MaxSessions
  /\ controller' = AfterStop(controller, i)
  /\ UNCHANGED besideController

\* The client generator of the session of call i yields 'end' and is done,
\* or yields 'error'.
ClientYields(i, code) ==
  /\ controller.chains[i].pc = "consume"
  /\ controller' = OnClientEvent(controller, i, code)
  /\ UNCHANGED besideController

NextController ==
  \/ Start
  \/ Forward
  \/ Backward
  \/ ControllerStop
  \/ Pause
  \/ SetVoice
  \/ \E i \in 1..Len(controller.chains) : ClientStopped(i)
  \/ \E i \in 1..Len(controller.chains) : RaceEnds(i)
  \/ \E i \in 1..Len(controller.chains), code \in {"end", "error"} : ClientYields(i, code)

SpecController == InitController /\ [][NextController]_vars

CacheKeys(cache) == {cache[i].key : i \in 1..Len(cache)}

\* C11: the cache never holds more than #preloadCacheMaxEntries entries,
\* and an entry that an insertion removes is the one whose last read or
\* write is the oldest.
C11_EvictsLeastRecentlyUsed ==
  [][/\ Len(audioCache') <= preloadCacheMaxEntries
     /\ \A key \in CacheKeys(audioCache) \ CacheKeys(audioCache') :
          key = hist.used[1]]_vars

PreloadCount(k) == Min(k.n, prefetchWindowSize)
OnlyEnd(k) == k.events = <<>> \/ k.events = <<Event("end", -1, "")>>

StartedAfterCancel(b) ==
  /\ \E a \in 1..(b - 1) : calls[a].aborted \/ hist.stopCalled
  /\ provider # "none"
  /\ ~calls[b].preload /\ ~calls[b].aborted
  /\ hist.envOps = calls[b].startOps
  /\ hist.faults = 0

\* C13: a speak() call started after an earlier call was aborted or stopped
\* is not affected by it: it never ends with an error, and while it waits
\* for the end of a playback on the shared element that element still
\* reports to it.
C13_NextCallUnaffected ==
  \A b \in CallIds :
    StartedAfterCancel(b) =>
      /\ calls[b].pc = "done" => LastEvent(calls[b]).code = "end"
      /\ calls[b].pc \in {"playShared", "playOnce"} => audioElement.handlers = b

\* C14: stop() is defined in every reachable state of the client, and
\* calling it twice in a row leaves the client in the state that one call
\* leaves it in.
C14_StopIdempotent ==
  /\ StopBody(Cur).isStopped
  /\ StopBody(StopBody(Cur)) = StopBody(Cur)

\* stop() has just been called on a client with requests in flight and a
\* task that was queued for a slot; a second stop() changes nothing.
C14_Witness ==
  /\ hist.stopCalled /\ isStopped
  /\ TasksIn({"inflight"}) # {} /\ TasksIn({"waiting"}) # {}
  /\ prefetchWaiters = <<>> /\ prefetchInFlight = 0
  /\ StopBody(Cur) = Cur

(* ---- C15 ---- *)
\* The speak() call k has ended with the error of a synthesis that returned
\* HTTP 401.
EndedUnauthorized(k) ==
  /\ k.events # <<>> /\ LastEvent(k).code = "error"
  /\ LastEvent(k).why = HttpErrorMessage(401)

\* The event carries value v in a field named f.
Carries(e, f, v) == f \in DOMAIN e /\ e[f] = v

C15_EventState ==
  \A c \in CallIds :
    EndedUnauthorized(calls[c]) =>
      /\ Carries(LastEvent(calls[c]), "errorCode", "unauthorized")
      /\ Carries(LastEvent(calls[c]), "status", 401)
      /\ calls[c].pc = "done"

C15_CacheStep ==
  \A t \in TaskIds :
    (FailsNow(t) /\ tasks'[t].status = 401) => ~CacheHas(Cur', tasks[t].key)

\* C15: when the synthesis of a segment returns HTTP 401, the speak() call
\* ends with an error event that carries the Unauthorized code and the
\* status 401, nothing is played or announced after it, and the failing
\* step leaves no cache entry under the key of the segment.
C15_Unauthorized == []C15_EventState /\ [][C15_CacheStep]_vars

C15_CacheUntouched == [][C15_CacheStep]_vars

\* What does hold of such a call: the error event is its last event, it
\* names the status in its message, and the call has returned.
C15_Halts ==
  \A c \in CallIds :
    EndedUnauthorized(calls[c]) =>
      /\ calls[c].pc = "done"
      /\ \A j \in 1..(Len(calls[c].events) - 1) : calls[c].events[j].code = "boundary"

(* ---- C16 ---- *)
\* C16: in streaming transport a segment whose response cannot be appended
\* progressively is still played from that response: without MediaSource
\* support the body that is buffered and played is the one response of the
\* segment, and a failing append during playback does not end the call
\* with an error.
C16_StreamFallback ==
  \A c \in CallIds :
    LET k == calls[c] IN
    k.stream =>
      /\ (~k.mse /\ k.pc \in {"readBody", "playOnce"}) =>
            k.responses[k.idx + 1] = "read"
      /\ ~(k.events # <<>> /\ LastEvent(k).code = "error"
           /\ LastEvent(k).why = "append")

\* The part for a capability that is missing from the start.
C16_BufferedFallback ==
  \A c \in CallIds :
    LET k == calls[c] IN
    (k.stream /\ ~k.mse) =>
      /\ k.pc \in {"readBody", "playOnce"} => k.responses[k.idx + 1] = "read"
      /\ \A j \in 1..Len(k.events) : k.events[j].why # "append"

(* ---- C17 ---- *)
\* Response i of call c has arrived and its body has been neither read nor
\* cancelled.
UnreadResponse(c, i) == calls[c].responses[i] = "ok"

\* Call c is a streaming call whose signal has fired, in a run without any
\* failure of the network or of a media element.
AbortedStream(c) == calls[c].stream /\ calls[c].aborted /\ hist.faults = 0

\* C17: in streaming transport, once the abort signal of a speak() call has
\* fired and the call has returned, no response that was opened for it is
\* left open: the reader of the segment being played is cancelled and no
\* prefetched response is left with its body unread.
C17_ResponsesClosed ==
  \A c \in CallIds :
    (AbortedStream(c) /\ calls[c].pc = "done") =>
      /\ ~calls[c].reading
      /\ \A i \in 1..calls[c].n : ~UnreadResponse(c, i)

\* A speak() call that has returned never closes a response later: what is
\* unread then stays unread.
C17_UnreadStaysUnread ==
  [][\A c \in CallIds : \A i \in 1..calls[c].n :
       (calls[c].pc = "done" /\ UnreadResponse(c, i)) =>
          calls'[c].responses[i] = "ok"]_vars

\* The part for the reader of the segment being played: the abort listener
\* cancels it in the step in which the signal fires.
C17_ReaderCancelled ==
  [][\A c \in CallIds :
       (~calls[c].aborted /\ calls'[c].aborted) => ~calls'[c].reading]_vars

(* ---- C18 ---- *)
PositiveLimits(options) ==
  /\ options.preferredMaxChars >= 1
  /\ options.absoluteMaxChars >= 1
  /\ options.minCharsPerSegment >= 1

\* C18: with positive limits no segment pushed by buildRemoteTTSSegments,
\* and no buffer it is building, is longer than absoluteMaxChars; the space
\* inserted between joined pieces counts.
C18_AbsoluteLimit ==
  PositiveLimits(segmenter.options) =>
    /\ \A i \in 1..Len(segmenter.segments) :
         Len(segmenter.segments[i].text) <= segmenter.options.absoluteMaxChars
    /\ Len(segmenter.currentText) <= segmenter.options.absoluteMaxChars

\* A returned segment that is longer than preferredMaxChars and exactly
\* absoluteMaxChars long: pieces of two marks merged because the buffer was
\* shorter than minCharsPerSegment, joined by an inserted space.
C18_Witness ==
  /\ segmenter.pc = "returned"
  /\ PositiveLimits(segmenter.options)
  /\ \E i \in 1..Len(segmenter.segments) :
       LET seg == segmenter.segments[i] IN
       /\ Len(seg.text) = segmenter.options.absoluteMaxChars
       /\ Len(seg.text) > segmenter.options.preferredMaxChars
       /\ Len(seg.marks) = 2
       /\ \E j \in 1..Len(seg.text) : seg.text[j] = JoinSpace

(* ---- C19 ---- *)
RECURSIVE ConcatAll(_)
ConcatAll(texts) ==
  IF texts = <<>> THEN <<>> ELSE Head(texts) \o ConcatAll(Tail(texts))

NotJoinSpace(ch) == ch # JoinSpace
NotSpace(ch) == ~IsSpace(ch)

\* The texts of the segments in order, without the inserted spaces.
SegmentChars ==
  ConcatAll([i \in 1..Len(segmenter.segments) |->
               SelectSeq(segmenter.segments[i].text, NotJoinSpace)])

\* The normalized texts of the marks in order.
MarkChars ==
  ConcatAll([i \in 1..Len(segmenter.marks) |-> NormalizeText(segmenter.marks[i])])

\* C19: the texts of the returned segments, concatenated in order without
\* the spaces inserted by joining, are the normalized mark texts
\* concatenated in order.
C19_TextPreserved ==
  segmenter.pc = "returned" => SegmentChars = MarkChars

\* What does hold: every character that is not whitespace is kept, once and
\* in order.
C19_NonSpacePreserved ==
  segmenter.pc = "returned" =>
    SelectSeq(SegmentChars, NotSpace) = SelectSeq(MarkChars, NotSpace)

(* ---- C20 ---- *)
\* The anchor of segment seg is the first of the marks that gave it text,
\* and that mark has text.
AnchorIsFirst(seg) ==
  /\ seg.marks # <<>>
  /\ seg.anchorMark = seg.marks[1]
  /\ \A j \in 1..Len(seg.marks) : seg.anchorMark <= seg.marks[j]
  /\ NormalizeText(segmenter.marks[seg.anchorMark]) # <<>>

\* Mark a was cut into several pieces before it reached the buffer.
WasSplit(a) ==
  /\ PerPieceLimit(segmenter) >= 1
  /\ Len(SplitByAbsoluteLimit(segmenter.marks[a], PerPieceLimit(segmenter))) > 1

\* C20: the anchorMark of every segment is the first mark, in input order,
\* that gave text to the segment; a mark whose text normalizes to empty is
\* never an anchor; the anchors of consecutive segments do not go back in
\* the mark list, and two consecutive segments have the same anchor only
\* when that mark was split and its pieces went to both.
C20_Anchors ==
  LET segs == segmenter.segments IN
  /\ \A i \in 1..Len(segs) : AnchorIsFirst(segs[i])
  /\ \A i \in 1..(Len(segs) - 1) :
       /\ segs[i].anchorMark <= segs[i + 1].anchorMark
       /\ segs[i].anchorMark = segs[i + 1].anchorMark =>
            /\ WasSplit(segs[i].anchorMark)
            /\ segs[i].marks[Len(segs[i].marks)] = segs[i].anchorMark

\* Two returned segments with the same anchor, the second of which also
\* holds text of a later mark.
C20_Witness ==
  LET segs == segmenter.segments IN
  /\ segmenter.pc = "returned"
  /\ \E i \in 1..(Len(segs) - 1) :
       /\ segs[i].anchorMark = segs[i + 1].anchorMark
       /\ Len(segs[i + 1].marks) = 2
       /\ segs[i + 1].marks[2] > segs[i + 1].anchorMark

(* ---- C21 ---- *)
ZhMarks == [i \in 1..4 |-> ZhSentence(ZhNumerals[i])]

\* buildRemoteTTSSegments has returned for the four sentences with
\* preferredMaxChars 12, absoluteMaxChars 500 and minCharsPerSegment 6.
ZhScenarioReturned ==
  /\ segmenter.pc = "returned"
  /\ segmenter.marks = ZhMarks
  /\ segmenter.options = [preferredMaxChars |-> 12, absoluteMaxChars |-> 500,
                          minCharsPerSegment |-> 6]

\* C21: for the four four-character sentences with preferredMaxChars 12,
\* absoluteMaxChars 500 and minCharsPerSegment 6 the segments are the first
\* two sentences, anchored at mark 0, and the last two, anchored at mark 2
\* (positions 1 and 3 of the list).
C21_MergeShortMarks ==
  ZhScenarioReturned =>
    /\ Len(segmenter.segments) = 2
    /\ segmenter.segments[1].text = ZhMarks[1] \o ZhMarks[2]
    /\ segmenter.segments[1].anchorMark = 1
    /\ segmenter.segments[2].text = ZhMarks[3] \o ZhMarks[4]
    /\ segmenter.segments[2].anchorMark = 3

\* What the code returns for that input.
C21_ThreeAndOne ==
  ZhScenarioReturned =>
    /\ Len(segmenter.segments) = 2
    /\ segmenter.segments[1].text = ZhMarks[1] \o ZhMarks[2] \o ZhMarks[3]
    /\ segmenter.segments[1].anchorMark = 1
    /\ segmenter.segments[2].text = ZhMarks[4]
    /\ segmenter.segments[2].anchorMark = 4

(* ---- C22 ---- *)
\* buildRemoteTTSSegments has returned for one mark of 700 characters.
ParagraphReturned ==
  /\ segmenter.pc = "returned"
  /\ Len(segmenter.marks) = 1
  /\ Len(segmenter.marks[1]) = 700

\* C22: one mark holding a Latin paragraph of 700 characters without
\* punctuation, absoluteMaxChars 500 and the other options at their
\* defaults, gives exactly two segments: the first of at most 500
\* characters, the second holding the rest of the paragraph.
C22_LongParagraph ==
  ParagraphReturned =>
    /\ Len(segmenter.segments) = 2
    /\ Len(segmenter.segments[1].text) <= 500
    /\ SelectSeq(SegmentChars, NotSpace) = SelectSeq(segmenter.marks[1], NotSpace)

\* What the code returns: pieces of at most preferredMaxChars characters,
\* none of them merged.
C22_PiecesOfPreferredSize ==
  ParagraphReturned =>
    /\ Len(segmenter.segments) >= 8
    /\ \A i \in 1..Len(segmenter.segments) :
         Len(segmenter.segments[i].text) <= DEFAULT_OPTIONS.preferredMaxChars

(* ---- C23 ---- *)
\* The join the claim describes, for two pieces that are not empty.
ExpectedJoin(left, right) ==
  IF /\ right[1] \in Letters \cup Digits
     /\ left[Len(left)] \in Letters \cup Digits \cup {".", "!", "?"}
  THEN left \o <<JoinSpace>> \o right
  ELSE left \o right

\* buildRemoteTTSSegments has returned for 'Hello', 'world.', 'How',
\* 'are you?' with preferredMaxChars 64 and minCharsPerSegment 8.
LatinScenarioReturned ==
  /\ segmenter.pc = "returned"
  /\ segmenter.marks = LatinWords
  /\ segmenter.options.preferredMaxChars = 64

\* C23: a piece joined to the buffer is separated from it by exactly one
\* inserted space if and only if it starts with a letter or digit and the
\* buffer ends with a letter, a digit, '.', '!' or '?'; otherwise nothing is
\* inserted.  The marks 'Hello', 'world.', 'How', 'are you?' give the one
\* segment 'Hello world. How are you?'.
C23_JoinSpace ==
  /\ (segmenter.pc = "loop" /\ segmenter.currentText # <<>>) =>
       \A piece \in ScenarioTexts :
         ConcatText(segmenter.currentText, piece)
           = ExpectedJoin(segmenter.currentText, piece)
  /\ LatinScenarioReturned =>
       /\ Len(segmenter.segments) = 1
       /\ segmenter.segments[1].text =
            LatinWords[1] \o <<JoinSpace>> \o LatinWords[2] \o <<JoinSpace>>
              \o LatinWords[3] \o <<JoinSpace>> \o LatinWords[4]

\* The four Latin marks have been merged into one segment with three
\* inserted spaces.
C23_Witness ==
  /\ LatinScenarioReturned
  /\ Len(segmenter.segments) = 1
  /\ Len(SelectSeq(segmenter.segments[1].text, NotJoinSpace))
       = Len(segmenter.segments[1].text) - 3


(***************************************************************************)
(* The adapter: error taxonomy and the voice list.                         *)
(***************************************************************************)
ExpectedCode(status) ==
  CASE status = 401 -> "unauthorized"
    [] status = 403 -> "forbidden"
    [] status = 429 -> "rate_limited"
    [] status \in (400..499) \ {401, 403, 429} -> "invalid_request"
    [] OTHER -> "upstream_error"
AdapterSettled == adapter.pc \in {"returned", "thrown"}
FailingMethods == {"health", "synthesize", "synthesizeStream"}
\* The provider answered the request of the call with a non-2xx status.
GotNon2xx ==
  /\ adapter.method \in FailingMethods
  /\ adapter.outcome.kind = "response"
  /\ adapter.outcome.status \notin 200..299
FailedWithStatus ==
  /\ adapter.pc = "thrown"
  /\ adapter.error = [name |-> "RemoteTTSAdapterError",
                      code |-> ExpectedCode(adapter.outcome.status),
                      status |-> adapter.outcome.status]
C24_StatusMapped == GotNon2xx /\ AdapterSettled => FailedWithStatus
C24_EmptyBaseUrl ==
  adapter.method \in FailingMethods /\ adapter.baseUrl = <<>> =>
    /\ adapter.requests = 0
    /\ AdapterSettled =>
         /\ adapter.pc = "thrown"
         /\ adapter.error = [name |-> "RemoteTTSAdapterError", code |-> "invalid_provider",
                             status |-> 400]

\* C24: whenever the provider answers health, synthesize or synthesizeStream
\* with a non-2xx status s, the call fails with a RemoteTTSAdapterError of
\* status s whose code is unauthorized for 401, forbidden for 403,
\* rate_limited for 429, invalid_request for the rest of 400..499 and
\* upstream_error otherwise; and with an empty baseUrl the call fails with
\* invalid_provider (status 400) and no request is made.
C24_ErrorMapping == C24_StatusMapped /\ C24_EmptyBaseUrl

\* What does hold: the mapping, for the responses whose body can be read.
C24_MappedWhenBodyReadable ==
  GotNon2xx /\ AdapterSettled /\ adapter.payload.kind # "unreadable" => FailedWithStatus
C24_Unreadable ==
  /\ GotNon2xx /\ adapter.outcome.status = 401
  /\ adapter.pc = "thrown" /\ adapter.error.name = "TypeError"

\* The host of a base URL ("" when it is not a URL).
HostOf(baseUrl) ==
  IF baseUrl # <<>> /\ baseUrl[1] \in DOMAIN OriginHostname
  THEN OriginHostname[baseUrl[1]] ELSE ""
\* The /audio/voices request gave voices with a non-empty id.
ProviderGaveVoices ==
  /\ adapter.outcome.kind = "response"
  /\ adapter.outcome.status \in 200..299
  /\ adapter.payload.kind = "json"
  /\ \E i \in 1..Len(adapter.payload.voices) : adapter.payload.voices[i] # ""
ListedVoices == adapter.method = "listVoices" /\ adapter.baseUrl # <<>> /\ AdapterSettled
C25_NoForeignBuiltIns ==
  ListedVoices /\ adapter.pc = "returned" /\ adapter.voices = DEFAULT_OPENAI_VOICES =>
    HostOf(adapter.baseUrl) = "api.openai.com"
C25_FallbackByHost ==
  ListedVoices /\ adapter.requests = 1 /\ ~ProviderGaveVoices =>
    /\ adapter.pc = "returned"
    /\ adapter.voices = IF HostOf(adapter.baseUrl) = "api.openai.com"
                        THEN DEFAULT_OPENAI_VOICES ELSE <<>>

C25_WitnessOpenAI ==
  /\ ListedVoices /\ adapter.outcome.kind = "network"
  /\ adapter.baseUrl[1] = "https://api.openai.com"
  /\ adapter.pc = "returned" /\ adapter.voices = DEFAULT_OPENAI_VOICES


(***************************************************************************)
(* normalizeTTSSettings: the active provider.                              *)
(***************************************************************************)
SettingsReturned == settings.pc = "returned"
ProfilesWithId(providers, id) == {i \in 1..Len(providers) : providers[i].id = id}
\* activeProviderId is null or the id of exactly one profile of the output.
ZeroOrOneActive ==
  LET out == settings.output IN
  \/ ~out.activeProviderId.isString
  \/ Cardinality(ProfilesWithId(out.providers, out.activeProviderId.value)) = 1
\* No two profiles of the output share an id.
UniqueIds ==
  LET ps == settings.output.providers IN
  \A i, j \in 1..Len(ps) : ps[i].id = ps[j].id => i = j

\* C26: in the output of normalizeTTSSettings activeProviderId is null or
\* the id of exactly one profile of the normalized provider list, and no
\* two profiles of that list have the same id.
C26_ActiveProvider == SettingsReturned => ZeroOrOneActive /\ UniqueIds

\* What does hold: an activeProviderId that is not null names at least one
\* profile of the output, and every profile of the output passed
\* normalization.
C26_ActiveNamesSome ==
  SettingsReturned =>
    LET out == settings.output IN
    /\ out.activeProviderId.isString =>
         ProfilesWithId(out.providers, out.activeProviderId.value) # {}
    /\ \A i \in 1..Len(out.providers) :
         /\ out.providers[i].id # <<>> /\ out.providers[i].name # <<>>
         /\ out.providers[i].baseUrl # <<>>
         /\ out.providers[i].type = "openai_compatible"
C26_TwoActive ==
  /\ SettingsReturned /\ settings.output.activeProviderId.isString
  /\ Cardinality(ProfilesWithId(settings.output.providers,
                                settings.output.activeProviderId.value)) = 2


(***************************************************************************)
(* The prefetch window and the order of boundary and acquisition.          *)
(***************************************************************************)
PendingResponses(c) ==
  Cardinality({i \in 1..calls[c].n : calls[c].responses[i] = "pending"})
RECURSIVE SumPending(_)
SumPending(c) == IF c = 0 THEN 0 ELSE PendingResponses(c) + SumPending(c - 1)
\* The synthesis requests that were sent and have not been answered.
OutstandingRequests == Cardinality(TasksIn({"inflight"})) + SumPending(Len(calls))
\* One utterance of four segments is being spoken.
FourSegments == Len(calls) = 1 /\ calls[1].n = 4 /\ ~calls[1].preload

\* C27: every synthesis request is issued under a semaphore slot, in the
\* streaming transport as in the buffered one: while an utterance of four
\* segments is spoken with prefetch window 2, at most 2 synthesis requests
\* are outstanding at the same time.
C27_RequestsGated == FourSegments => OutstandingRequests <= maxPrefetchInFlight

\* What does hold: the bound in the buffered transport while stop() has not
\* been called.
C27_BufferedGated ==
  FourSegments /\ ~calls[1].stream /\ ~hist.stopCalled =>
    OutstandingRequests <= maxPrefetchInFlight
C27_ThreeOutstanding ==
  /\ FourSegments /\ calls[1].stream /\ ~hist.stopCalled
  /\ OutstandingRequests = 3 /\ prefetchInFlight = 0

\* A request for segment i of call c leaves in this step.
RequestLeaves(c, i) ==
  /\ calls'[c].responses[i] = "pending"
  /\ c > Len(calls) \/ calls[c].responses[i] = "none"
C28_Step ==
  \A c \in 1..Len(calls') : \A i \in 1..calls'[c].n :
     RequestLeaves(c, i) =>
       ~CacheHas(Cur, BuildAudioCacheKey(Cur, calls'[c].cfg, SegmentText(i - 1)))

\* C28: in the streaming transport no synthesis request is made for a
\* segment whose audio is in the cache, neither when the segment becomes
\* current nor as part of a warm-up window.
C28_CachedNotRequested == [][C28_Step]_vars

\* What does hold: when a cached segment becomes current it is played from
\* the cache through playBufferedAudio, and that step sends no request.
C28_CurrentStep ==
  \A c \in 1..Len(calls) :
     LET k == calls[c] IN
     /\ k.stream /\ k.pc = "yBoundary" /\ calls'[c].pc # "yBoundary"
     /\ CacheHas(Cur, BuildAudioCacheKey(Cur, k.cfg, SegmentText(k.idx)))
     => /\ calls'[c].responses = k.responses
        /\ calls'[c].plays = Append(k.plays, k.idx)
        /\ calls'[c].pc = "playShared"
C28_CurrentFromCache == [][C28_CurrentStep]_vars
\* A streaming call plays its current segment from the cache.
C28_CachedCurrent ==
  \E c \in CallIds :
     LET k == calls[c] IN
     /\ k.stream /\ ~k.preload /\ k.pc = "playShared" /\ k.idx = 0
     /\ k.plays = <<0>> /\ k.responses[1] = "pending"

HasBoundary(k, i) ==
  \E j \in 1..Len(k.events) :
     k.events[j].code = "boundary" /\ k.events[j].mark = AnchorMark(i)
\* A synthesis request or a cache lookup was made for segment i.
AcquisitionStarted(k, i) == k.promises[i + 1].kind # "none" \/ k.responses[i + 1] # "none"

\* C29 as stated: the boundary event of segment i is emitted before any
\* synthesis request or cache lookup for segment i is made.
C29_BoundaryBeforeAcquisition ==
  \A c \in CallIds :
     ~calls[c].preload =>
        \A i \in 0..(calls[c].n - 1) :
           AcquisitionStarted(calls[c], i) => HasBoundary(calls[c], i)

\* C29: the boundary event of segment i is emitted before the audio of
\* segment i is awaited and before it is played; the acquisition of segment
\* i starts earlier, with the warm-up window: before the first boundary for
\* the first W segments, and otherwise after the boundary of one of the W
\* segments before i.
C29_BoundaryBeforeAwait ==
  \A c \in CallIds :
     LET k == calls[c] IN
     ~k.preload /\ provider # "none" =>
        /\ k.pc # "done" => HasBoundary(k, k.idx)
        /\ \A j \in 1..Len(k.plays) : HasBoundary(k, k.plays[j])
        /\ \A i \in 0..(k.n - 1) :
              AcquisitionStarted(k, i) =>
                 \/ i < prefetchWindowSize
                 \/ \E b \in (i - prefetchWindowSize)..i : HasBoundary(k, b)

\* The audio of segment 0 is awaited after its boundary, while the request
\* for segment 1 was sent before the boundary of segment 1.
C29_Witness ==
  \E c \in CallIds :
     LET k == calls[c] IN
     /\ ~k.preload /\ k.n >= 2 /\ k.idx = 0 /\ k.pc \in {"awaitAudio", "awaitResp"}
     /\ HasBoundary(k, 0) /\ ~HasBoundary(k, 1)
     /\ AcquisitionStarted(k, 1)

CallMade == Len(calls) = 1
CallDone == Len(calls) = 1 /\ calls[1].pc = "done"

\* C31: a speak() generator whose consumer keeps pulling and whose requests
\* are all answered reaches its terminal event, also when stop() is called
\* while it waits for the audio element or for a queued task.
C31_Terminates == CallMade ~> CallDone

\* What does hold: the call ends when stop() is not called.
C31_TerminatesUnlessStopped == CallMade ~> (CallDone \/ hist.stopCalled)
\* The generator waits for the end of a playback that stop() has paused and
\* whose handlers stop() has removed.
C31_WaitsForever ==
  /\ CallMade /\ calls[1].pc = "playShared" /\ hist.stopCalled
  /\ ~audioElement.playing /\ audioElement.handlers = 0 /\ audioElement.playPromise = 0
  /\ microtasks = <<>>

\* The generator awaits a task that was queued for a slot when stop()
\* dropped the waiters.
C31_WaiterDropped ==
  \E c \in CallIds :
     LET k == calls[c] IN
     /\ k.pc = "awaitAudio" /\ hist.stopCalled /\ microtasks = <<>>
     /\ k.promises[k.idx + 1].kind = "task"
     /\ tasks[k.promises[k.idx + 1].t].st = "waiting"
     /\ prefetchWaiters = <<>>

(***************************************************************************)
(* One request per cache key; the semaphore counter.                       *)
(***************************************************************************)
\* C32: at any time at most one synthesis request per cache key has been
\* sent and is not settled, in any sequence of speak(), preload and stop()
\* calls.
C32_OneRequestPerKey ==
  \A t1, t2 \in TasksIn({"inflight"}) : tasks[t1].key = tasks[t2].key => t1 = t2

\* What does hold: one unsettled request per key while stop() has not been
\* called.
C32_OnePerKeyUnlessStopped == ~hist.stopCalled => C32_OneRequestPerKey
\* Two requests for one key are out, the first sent before stop() and the
\* second by the next call.
C32_TwoRequests ==
  /\ hist.stopCalled
  /\ \E t1, t2 \in TasksIn({"inflight"}) :
        t1 < t2 /\ tasks[t1].key = tasks[t2].key /\ tasks[t1].owner # tasks[t2].owner

\* The tasks that took a slot and whose request has not settled.
SlotHolders == TasksIn({"acquired", "inflight"})

\* C37: in any sequence of speak(), preload and stop() calls the counter
\* #prefetchInFlight is the number of requests that hold a slot and have
\* not settled, and that number is at most #maxPrefetchInFlight.
C37_CounterExact ==
  /\ prefetchInFlight = Cardinality(SlotHolders)
  /\ Cardinality(SlotHolders) <= maxPrefetchInFlight

\* What does hold in every state: the counter itself stays within 0 and
\* #maxPrefetchInFlight.
C37_CounterInRange == prefetchInFlight \in 0..maxPrefetchInFlight
\* After stop() more requests are out than the semaphore admits.
C37_TooManyRequests ==
  hist.stopCalled /\ Cardinality(TasksIn({"inflight"})) > maxPrefetchInFlight
\* A request sent before stop() has released a slot that a request of the
\* next call holds: the counter is below the number of holders.
C37_ForeignRelease ==
  /\ hist.stopCalled /\ TasksIn({"woken"}) = {}
  /\ \E t \in TaskIds : tasks[t].st \in {"ok", "failed"} /\ tasks[t].owner = 1
  /\ prefetchInFlight < Cardinality({t \in SlotHolders : tasks[t].owner = 2})


(***************************************************************************)
(* The cache holds audio only.                                             *)
(***************************************************************************)
\* The answer that task t got is a 2xx response that is none of the three
\* non-audio types.
AudioAnswer(t) ==
  /\ tasks[t].status \in 200..299
  /\ \A i \in 1..Len(tasks[t].contentType) :
        tasks[t].contentType[i] \notin
          {"application/json", "text/plain", "text/html", "Text/HTML"}
C34_EntryState ==
  \A i \in 1..Len(audioCache) :
     \E t \in TaskIds :
        tasks[t].st = "ok" /\ tasks[t].key = audioCache[i].key /\ AudioAnswer(t)
\* A task whose request is answered in this step.
AnsweredNow(t) == tasks[t].st = "inflight" /\ tasks'[t].st # "inflight"
C34_EntryStep ==
  \A t \in TaskIds :
     AnsweredNow(t) /\ ~AudioAnswer(t)' =>
        /\ tasks'[t].st = "failed"
        /\ CacheKeys(audioCache') = CacheKeys(audioCache)
        /\ \A i \in 1..Len(audioCache') :
              audioCache'[i].key = tasks[t].key => audioCache'[i] \in
                 {audioCache[j] : j \in 1..Len(audioCache)}

\* C34: every entry of the audio cache comes from a 2xx response whose
\* content type is none of application/json, text/plain and text/html; a
\* failed, rejected or non-audio response fails its task and neither
\* creates nor replaces an entry.
C34_CacheFromAudio == []C34_EntryState /\ [][C34_EntryStep]_vars

\* A 200 response of type text/html has failed the task of one call and
\* left the cache empty; the task of the next call, answered with audio and
\* status 204, has made the only entry.
C34_Witness ==
  /\ Len(audioCache) = 1
  /\ \E t1, t2 \in TaskIds :
        /\ t1 < t2
        /\ tasks[t1].st = "failed" /\ tasks[t1].status = 200
        /\ tasks[t1].contentType = <<"Text/HTML", "; charset=utf-8">>
        /\ tasks[t2].st = "ok" /\ tasks[t2].status = 204
        /\ audioCache[1].key = tasks[t2].key

(***************************************************************************)
(* A call that was stopped stays silent.                                   *)
(***************************************************************************)
\* stop() was invoked after call c had started and while it was in progress
\* (stop() is the only call counted since), and its signal is not aborted.
StoppedInProgress(c) ==
  /\ hist.stopCalled /\ hist.envOps = 1 /\ calls[c].startOps = 0
  /\ ~calls[c].aborted
C38_Step ==
  \A c \in CallIds :
     StoppedInProgress(c) =>
        /\ BoundaryCount(calls'[c]) = BoundaryCount(calls[c])
        /\ calls'[c].plays = calls[c].plays

\* C38: a speak() call that was in progress when stop() was invoked, and
\* whose signal is not aborted, emits no boundary event and starts no
\* playback afterwards, also when another call has started in between.
C38_StoppedStaysSilent == [][C38_Step]_vars

\* Two calls play in the same period: the stopped one on the shared element,
\* the later one on an element of its own, or the other way round.
C38_BothPlay ==
  /\ Len(calls) = 2 /\ StoppedInProgress(1)
  /\ PlayingFor(1) /\ PlayingFor(2)
\* The stopped call went on after the flag was reset by the next call: it
\* has emitted the boundary of its second segment.
C38_ResumedAfterReset ==
  /\ Len(calls) = 2 /\ StoppedInProgress(1) /\ ~isStopped
  /\ BoundaryCount(calls[1]) = 2 /\ calls[1].lateStart = FALSE

(***************************************************************************)
(* The options of the segmenter.                                           *)
(***************************************************************************)
PositiveOptions(options) ==
  /\ options.preferredMaxChars >= 1
  /\ options.absoluteMaxChars >= 1
  /\ options.minCharsPerSegment >= 1

\* What the options become: preferred above absolute is lowered to
\* absolute, min above the lowered preferred is half of it, rounded down,
\* and at least 1; everything else is kept.
EffectiveOptions(given, effective) ==
  LET preferred == Min(given.preferredMaxChars, given.absoluteMaxChars)
      half == preferred \div 2
  IN /\ effective.absoluteMaxChars = given.absoluteMaxChars
     /\ effective.preferredMaxChars = preferred
     /\ effective.minCharsPerSegment =
          IF given.minCharsPerSegment > preferred
          THEN (IF half >= 1 THEN half ELSE 1)
          ELSE given.minCharsPerSegment

\* C36: for three positive integers as options, the options that
\* buildRemoteTTSSegments works with satisfy minCharsPerSegment <=
\* preferredMaxChars <= absoluteMaxChars; preferred above absolute has been
\* lowered to absolute, and min above that preferred has been replaced by
\* half of it, rounded down and at least 1.
C36_OptionsOrdered ==
  (segmenter.pc = "loop" /\ PositiveOptions(segmenter.given)) =>
     /\ segmenter.options.minCharsPerSegment <= segmenter.options.preferredMaxChars
     /\ segmenter.options.preferredMaxChars <= segmenter.options.absoluteMaxChars
     /\ EffectiveOptions(segmenter.given, segmenter.options)

\* Both replacements in one call: preferred 6 lowered to 5, min 6 replaced
\* by 2.
C36_Witness ==
  /\ segmenter.pc = "loop"
  /\ segmenter.given = [preferredMaxChars |-> 6, absoluteMaxChars |-> 5,
                        minCharsPerSegment |-> 6]
  /\ segmenter.options = [preferredMaxChars |-> 5, absoluteMaxChars |-> 5,
                          minCharsPerSegment |-> 2]

\* Without the condition the order does not hold: preferred 0 leaves min 1
\* above it.
C36_OrderedForAnyOptions ==
  segmenter.pc = "loop" =>
     /\ segmenter.options.minCharsPerSegment <= segmenter.options.preferredMaxChars
     /\ segmenter.options.preferredMaxChars <= segmenter.options.absoluteMaxChars

(***************************************************************************)
(* The call of the segmenter ends.                                         *)
(***************************************************************************)
LimitsAtLeastOne ==
  /\ segmenter.given.preferredMaxChars >= 1
  /\ segmenter.given.absoluteMaxChars >= 1

\* In the loop, with text beyond the limit: the next iteration cuts at
\* least one character off and leaves less than there was.
C39_IterationShrinks ==
  (/\ segmenter.pc = "split" /\ LimitsAtLeastOne
   /\ Len(segmenter.remaining) > PerPieceLimit(segmenter)) =>
     /\ PickBestBreakIndex(segmenter.remaining, PerPieceLimit(segmenter)) >= 1
     /\ Len(RemainingAfter(segmenter.remaining, PerPieceLimit(segmenter)))
          < Len(segmenter.remaining)

\* The second call returns what the first returned.
C39_SameAgain ==
  (segmenter.pc \in {"again", "diverged"} /\ LimitsAtLeastOne) =>
     /\ segmenter.pc = "again"
     /\ segmenter.again = segmenter.segments

\* The options do not change during a call: a call with both limits at
\* least 1 reaches its return.
C39_Returns ==
  <>(LimitsAtLeastOne => segmenter.pc \in {"returned", "again"})

C39_ReturnsForAnyOptions == <>(segmenter.pc \in {"returned", "again"})

(***************************************************************************)
(* The sessions of the TTSController.                                      *)
(***************************************************************************)
SessionIds == 1..Len(controller.sessions)
Live(s) == ~controller.sessions[s].aborted /\ controller.sessions[s].consuming

\* C33: at most one #speak session is live, that is, has a signal that is
\* not aborted and a client generator that is being consumed.
C33_OneLiveSession ==
  \A s1 \in SessionIds, s2 \in SessionIds : Live(s1) /\ Live(s2) => s1 = s2

\* Two calls of start() one after the other, the second in stop() before
\* the first has made its AbortController: two sessions, and stop() knows
\* the second only.
C33_BothLive ==
  /\ controller.ops = 2 /\ Len(controller.sessions) = 2
  /\ Live(1) /\ Live(2)
  /\ controller.currentSpeakAbortController = 2

(***************************************************************************)
(* A synthesis failure stops the controller.                               *)
(***************************************************************************)
\* The step in which the for await of session s receives an 'error' event
\* with a signal that is not aborted: its promise is rejected.
ErrorStep(s) ==
  /\ controller.sessions[s].settled = "pending"
  /\ controller'.sessions[s].settled = "rejected"
\* The step in which session s calls forward() after an 'end' event.
AdvanceStep(s) ==
  /\ controller.sessions[s].consuming /\ ~controller'.sessions[s].consuming
  /\ \E i \in 1..Len(controller'.chains) :
       controller'.chains[i].sid = s /\ controller'.chains[i].kind = "forward"
CallsOfKind(k, kind) == {i \in 1..Len(k.chains) : k.chains[i].kind = kind}
NoCallMade ==
  /\ Cardinality(CallsOfKind(controller', "forward"))
       <= Cardinality(CallsOfKind(controller, "forward"))
  /\ Cardinality(CallsOfKind(controller', "speak"))
       < Cardinality(CallsOfKind(controller, "speak"))
C35_Step ==
  \A s \in SessionIds :
     /\ ErrorStep(s) => /\ controller'.state = "stopped"
                        /\ controller'.sessions[s].aborted
                        /\ NoCallMade
     /\ AdvanceStep(s) => controller.state = "playing"

\* C35: an 'error' event in a session whose signal is not aborted leaves
\* the controller in state 'stopped' with that session's signal aborted
\* and without a call of forward(); an 'end' event calls forward() only
\* when the state is 'playing'.
C35_ErrorStops == [][C35_Step]_vars

\* What holds of it: the state and the absence of a call.
C35_StoppedWithoutForward ==
  [][\A s \in SessionIds :
        /\ ErrorStep(s) => controller'.state = "stopped" /\ NoCallMade
        /\ AdvanceStep(s) => controller.state = "playing"]_vars

\* The failed session keeps its signal, the other session has lost its own.
C35_OtherSessionAborted ==
  /\ Len(controller.sessions) = 2
  /\ controller.sessions[1].settled = "rejected" /\ ~controller.sessions[1].aborted
  /\ controller.sessions[2].aborted /\ controller.sessions[2].consuming
  /\ controller.currentSpeakAbortController = 0
  /\ controller.state = "stopped"

(***************************************************************************)
(* The order of what is spoken.                                            *)
(***************************************************************************)
FirstUnit(b) == b.units[1]
LastUnit(b) == b.units[Len(b.units)]
Consecutive(units) == \A j \in 1..(Len(units) - 1) : units[j + 1] = units[j] + 1

\* Where b may begin when a was spoken before it and no forward() or
\* backward() moved the position in between: after a when forward() chose
\* it, not after a when backward() chose it, with a or after a when start()
\* resumed, at the first unit when start() started.
InOrder(a, b) ==
  CASE b.via = "forward" -> FirstUnit(b) = LastUnit(a) + 1
    [] b.via = "backward" -> FirstUnit(b) <= LastUnit(a)
    [] b.via = "resume" -> FirstUnit(b) >= FirstUnit(a) /\ FirstUnit(b) <= LastUnit(a) + 1
    [] OTHER -> FirstUnit(b) = 1

\* C40: the units handed to ttsClient.speak are contiguous in document
\* order, within an utterance and from one utterance to the next; the
\* queue holds at most #remoteBatchQueueTargetSize batches; and after the
\* queue was dropped the next utterance is chosen from the last one spoken,
\* not from where the walker stands.
C40_SpokenInOrder ==
  /\ Len(controller.remoteBatchQueue) <= RemoteBatchQueueTargetSize
  /\ \A i \in 1..Len(controller.spoken) : Consecutive(controller.spoken[i].units)
  /\ \A i \in 1..(Len(controller.spoken) - 1) :
       ~controller.spoken[i + 1].moved =>
          InOrder(controller.spoken[i], controller.spoken[i + 1])

\* start(), then backward() during the first utterance: units 5 and 6 are
\* spoken after units 1 and 2.
C40_BackwardGoesForward ==
  /\ controller.ops = 2
  /\ Len(controller.spoken) = 2
  /\ controller.spoken[1] = [units |-> <<1, 2>>, via |-> "start", moved |-> FALSE]
  /\ controller.spoken[2] = [units |-> <<5, 6>>, via |-> "backward", moved |-> FALSE]

\* start(), pause(), start(): the second utterance begins at unit 6, and
\* the one after it is the batch of units 3 and 4 that was left in the
\* queue.
C40_ResumeSkips ==
  /\ Len(controller.spoken) = 3
  /\ controller.spoken[1].units = <<1, 2>>
  /\ controller.spoken[2] = [units |-> <<6>>, via |-> "resume", moved |-> FALSE]
  /\ controller.spoken[3] = [units |-> <<3, 4>>, via |-> "forward", moved |-> FALSE]

\* The queue itself is in order and within its size.
C40_QueueBounded ==
  /\ Len(controller.remoteBatchQueue) <= RemoteBatchQueueTargetSize
  /\ \A i \in 1..Len(controller.remoteBatchQueue) :
       /\ controller.remoteBatchQueue[i] # <<>>
       /\ \A j \in 1..(Len(controller.remoteBatchQueue[i]) - 1) :
            controller.remoteBatchQueue[i][j + 1] = controller.remoteBatchQueue[i][j] + 1

=============================================================================
